---- MODULE Spec2Model ----
(***************************************************************************)
(* Jellyseerr integration: the refresh coordinator                         *)
(* (JellyseerrDataUpdateCoordinator._async_update_data), the detail lookup *)
(* it awaits, the service handler that refreshes on demand, the            *)
(* auto-approval switches' subscription lifecycle and their rules, the     *)
(* API client's calls and base address, the setup of a config entry, the   *)
(* single and batch service handlers, the bulk buttons, and the copy of    *)
(* the coordinator that looks records up concurrently.                     *)
(*                                                                         *)
(* Python values are encoded as follows.  A dict is a record whose DOMAIN  *)
(* is the set of keys present.  None is "None" for text, NoneNum for       *)
(* numbers, and the empty sequence for an optional object (<<v>> is the    *)
(* object v).  A URL is the sequence <<prefix, path>>.                     *)
(***************************************************************************)
EXTENDS Integers, Sequences, FiniteSets, TLC

\* ---------------------------------------------------------------- bounds
\* Short list answers: every sequence of request kinds up to this length.
MaxLen == 2
\* Long list answers: a run of up to this many pending requests that embed
\* a poster, with at most one request of any kind before or after it.
MaxFill == 11
\* Live bus listeners one switch may hold in the model.
MaxListeners == 2
\* Length of the list answers when two callers refresh at once.
MaxConcurrentLen == 1
\* Concurrent lookups: a run of up to this many requests carrying a tmdbId,
\* after at most one request of any kind.
MaxFanOut == 5
\* Request ids a caller of the API client passes: 1..MaxRequestId.
MaxRequestId == 2
\* Length of the list answers the rules are run on.
MaxRuleLen == 2
\* Rule tasks the switches may have created in one run of the model.
MaxTasks == 1
\* Length of the id list of a batch call.
MaxBatchLen == 2
\* Length of the list answers of the refreshes around a batch call or a
\* button press.
MaxRefreshLen == 1
\* Requests the server has numbered over the successive refreshes:
\* 1..MaxNumbered.
MaxNumbered == 3
\* Rule tasks the three switches together may have created while they are
\* turned on and off.
MaxToggleTasks == 2

\* ------------------------------------------------------ program constants
RecentCap == 5
BucketCap == 10
Pending == 1
KnownStatuses == {1, 2, 3, 4, 5}
DefaultStatus == 0
PosterBase == "https://image.tmdb.org/t/p/w500"
BackdropBase == "https://image.tmdb.org/t/p/original"

None == "None"
NoneNum == -1
NoObject == << >>

\* ------------------------------------------------------------ dict access
\* d.get(k, default)
Get(d, k, default) == IF k \in DOMAIN d THEN d[k] ELSE default

\* truthiness of a text value and of a number
TruthyS(v) == v \notin {None, ""}
TruthyN(v) == v \notin {NoneNum, 0}

\* a or b, for text values
OrS(a, b) == IF TruthyS(a) THEN a ELSE b

\* Variant of Incr: dict[k] = 1
Incr_Overwrite(counts, k) ==
    [j \in DOMAIN counts \cup {k} |-> IF j = k THEN 1 ELSE counts[j]]

\* dict[k] = dict.get(k, 0) + 1
Incr(counts, k) ==
    IF k \in DOMAIN counts
    THEN [counts EXCEPT ![k] = @ + 1]
    ELSE [j \in DOMAIN counts \cup {k} |-> IF j = k THEN 1 ELSE counts[j]]

EmptyDict == [k \in {} |-> 0]

\* ------------------------------------------------ status tally (297-301)
RECURSIVE TallyFrom(_, _, _)
TallyFrom(results, i, counts) ==
    IF i > Len(results) THEN counts
    ELSE TallyFrom(results, i + 1,
                   Incr(counts, Get(results[i], "status", DefaultStatus)))

StatusCounts(results) == TallyFrom(results, 1, EmptyDict)

\* ------------------------------------------- enrichment from media (314-351)
\* The locals of one loop iteration after the embedded media was read.
MediaOf(request) == Get(request, "media", EmptyDict)

\* [genre.get("name", "") for genre in genres]  (340, 379)
GenreNames(genres) == [ i \in 1..Len(genres) |-> Get(genres[i], "name", "") ]

\* Variant of EnrichFromMedia: only the camelCase posterPath is read.
EnrichFromMedia_CamelOnly(request) ==
    LET media == MediaOf(request)
        poster_path == Get(media, "posterPath", None)
        backdrop_path == OrS(Get(media, "backdropPath", None),
                             Get(media, "backdrop_path", None))
    IN  [ title      |-> IF DOMAIN media # {}
                         THEN OrS(Get(media, "title", None),
                                  Get(media, "name", "Unknown"))
                         ELSE "Unknown",
          overview   |-> IF DOMAIN media # {}
                         THEN Get(media, "overview", "") ELSE "",
          release_date |-> IF DOMAIN media # {}
                           THEN OrS(Get(media, "releaseDate", None),
                                    Get(media, "firstAirDate", ""))
                           ELSE "",
          rating     |-> IF DOMAIN media # {}
                         THEN Get(media, "voteAverage", 0) ELSE 0,
          runtime    |-> IF DOMAIN media # {}
                         THEN Get(media, "runtime", 0) ELSE 0,
          genres     |-> IF DOMAIN media # {} /\ Get(media, "genres", << >>) # << >>
                         THEN GenreNames(media.genres) ELSE << >>,
          poster_url |-> IF DOMAIN media # {} /\ TruthyS(poster_path)
                         THEN <<PosterBase, poster_path>> ELSE NoObject,
          backdrop_url |-> IF DOMAIN media # {} /\ TruthyS(backdrop_path)
                           THEN <<BackdropBase, backdrop_path>> ELSE NoObject,
          tmdb_id    |-> Get(media, "tmdbId", NoneNum) ]

EnrichFromMedia(request) ==
    LET media == MediaOf(request)
        poster_path == OrS(Get(media, "posterPath", None),
                           Get(media, "poster_path", None))
        backdrop_path == OrS(Get(media, "backdropPath", None),
                             Get(media, "backdrop_path", None))
    IN  [ title      |-> IF DOMAIN media # {}
                         THEN OrS(Get(media, "title", None),
                                  Get(media, "name", "Unknown"))
                         ELSE "Unknown",
          overview   |-> IF DOMAIN media # {}
                         THEN Get(media, "overview", "") ELSE "",
          release_date |-> IF DOMAIN media # {}
                           THEN OrS(Get(media, "releaseDate", None),
                                    Get(media, "firstAirDate", ""))
                           ELSE "",
          rating     |-> IF DOMAIN media # {}
                         THEN Get(media, "voteAverage", 0) ELSE 0,
          runtime    |-> IF DOMAIN media # {}
                         THEN Get(media, "runtime", 0) ELSE 0,
          genres     |-> IF DOMAIN media # {} /\ Get(media, "genres", << >>) # << >>
                         THEN GenreNames(media.genres) ELSE << >>,
          poster_url |-> IF DOMAIN media # {} /\ TruthyS(poster_path)
                         THEN <<PosterBase, poster_path>> ELSE NoObject,
          backdrop_url |-> IF DOMAIN media # {} /\ TruthyS(backdrop_path)
                           THEN <<BackdropBase, backdrop_path>> ELSE NoObject,
          tmdb_id    |-> Get(media, "tmdbId", NoneNum) ]

\* if not poster_url and tmdb_id  (355)
NeedsDetail(e) == e.poster_url = NoObject /\ TruthyN(e.tmdb_id)

\* ------------------------------------------ overlay of a detail answer (359-379)
\* details is NoObject (None) or <<body>>.
Overlay(e, details) ==
    IF details = NoObject \/ DOMAIN details[1] = {} THEN e
    ELSE LET d == details[1]
             poster_path == OrS(Get(d, "poster_path", None),
                                Get(d, "posterPath", None))
             backdrop_path == OrS(Get(d, "backdrop_path", None),
                                  Get(d, "backdropPath", None))
         IN  [ e EXCEPT
                 !.title      = OrS(Get(d, "title", None), Get(d, "name", e.title)),
                 !.overview   = Get(d, "overview", e.overview),
                 !.release_date = OrS(Get(d, "release_date", None),
                                      Get(d, "first_air_date", e.release_date)),
                 !.rating     = Get(d, "vote_average", e.rating),
                 !.runtime    = Get(d, "runtime", e.runtime),
                 !.poster_url = IF TruthyS(poster_path)
                                THEN <<PosterBase, poster_path>> ELSE e.poster_url,
                 !.backdrop_url = IF TruthyS(backdrop_path)
                                  THEN <<BackdropBase, backdrop_path>>
                                  ELSE e.backdrop_url,
                 !.genres     = IF Get(d, "genres", << >>) # << >>
                                THEN GenreNames(d.genres) ELSE e.genres ]

\* request_info  (385-401)
RequestInfo(request, e) ==
    [ id           |-> Get(request, "id", NoneNum),
      title        |-> e.title,
      status       |-> Get(request, "status", DefaultStatus),
      requested_by |-> Get(Get(request, "requestedBy", EmptyDict),
                           "displayName", "Unknown"),
      tmdb_id      |-> e.tmdb_id,
      poster_url   |-> e.poster_url,
      backdrop_url |-> e.backdrop_url,
      overview     |-> e.overview,
      release_date |-> e.release_date,
      genres       |-> e.genres,
      rating       |-> e.rating,
      runtime      |-> e.runtime ]

\* ------------------------------------------------- inputs: list answers
\* Request records as the list endpoint returns them (without their id).
\* Ratings are written in hundredths: 750 is the rating 7.5.
PendingWithPoster ==
    [ status |-> 1,
      media |-> [tmdbId |-> 603, title |-> "Dune", posterPath |-> "/m.jpg",
                 voteAverage |-> 750],
      requestedBy |-> [displayName |-> "alice"] ]
PendingNoPoster ==
    [ status |-> 1,
      media |-> [tmdbId |-> 604, voteAverage |-> 700],
      requestedBy |-> [displayName |-> "bob"] ]
ApprovedSnakePoster ==
    [ status |-> 2,
      media |-> [tmdbId |-> 11, name |-> "Severance", poster_path |-> "/m.jpg"] ]
AvailableNoMedia == [ status |-> 5 ]
UnknownStatus ==
    [ status |-> 6, media |-> [tmdbId |-> 605, title |-> "Solaris"] ]

\* Pending requests for the rules: rated just under the threshold, and
\* not rated and without a requester.
PendingLowRated ==
    [ status |-> 1,
      media |-> [tmdbId |-> 606, title |-> "Cats", posterPath |-> "/c.jpg",
                 voteAverage |-> 749],
      requestedBy |-> [displayName |-> "bob"] ]
PendingNoRating ==
    [ status |-> 1,
      media |-> [tmdbId |-> 607, title |-> "Untitled", posterPath |-> "/u.jpg"] ]

RequestKinds ==
    { PendingWithPoster, PendingNoPoster, ApprovedSnakePoster,
      AvailableNoMedia, UnknownStatus }

\* The server numbers the requests; here by their place in the answer.
WithIds(kinds) ==
    [ i \in 1..Len(kinds) |->
        [ k \in DOMAIN kinds[i] \cup {"id"} |->
            IF k = "id" THEN i ELSE kinds[i][k] ] ]

SeqsUpTo(S, n) == UNION { [1..m -> S] : m \in 0..n }

Fill(n) == [i \in 1..n |-> PendingWithPoster]

ShortLists == SeqsUpTo(RequestKinds, MaxLen)
LongLists ==
    { h \o Fill(n) : h \in SeqsUpTo(RequestKinds, 1), n \in 1..MaxFill }
    \cup { Fill(n) \o t : t \in SeqsUpTo(RequestKinds, 1), n \in 1..MaxFill }
ResultLists == { WithIds(l) : l \in ShortLists \cup LongLists }

\* The list answers of the specification of the rules.
RuleLists ==
    { WithIds(l) : l \in SeqsUpTo({PendingWithPoster, PendingLowRated}, MaxRuleLen)
                          \cup { <<PendingNoRating>> } }

\* The list answers of the specifications of the handlers: pending requests
\* that embed their poster.
RefreshLists == { WithIds(Fill(n)) : n \in 0..MaxRefreshLen }

\* The list answers of the specification with two callers.
ConcurrentLists == { WithIds(l) : l \in SeqsUpTo(RequestKinds, MaxConcurrentLen) }

\* The list answers of the specification of overlapping cycles: pending
\* requests with and without an embedded poster.
OverlapLists ==
    { WithIds(l) : l \in SeqsUpTo({PendingWithPoster, PendingNoPoster},
                                  MaxConcurrentLen) }

\* The list answers of successive refreshes: the server holds any subset of
\* the requests 1..MaxNumbered, each pending or approved, and lists them
\* newest first (sort=added, 100).
Numbered(kind, id) ==
    [ k \in DOMAIN kind \cup {"id"} |-> IF k = "id" THEN id ELSE kind[k] ]

RECURSIVE NewestFirst(_)
NewestFirst(S) ==
    IF S = {} THEN << >>
    ELSE LET h == CHOOSE x \in S : \A y \in S : y <= x
         IN  <<h>> \o NewestFirst(S \ {h})

NumberedLists ==
    UNION { { [ i \in 1..Cardinality(S) |->
                  Numbered(kinds[NewestFirst(S)[i]], NewestFirst(S)[i]) ] :
                kinds \in [S -> {PendingWithPoster, ApprovedSnakePoster}] } :
            S \in SUBSET (1..MaxNumbered) }

\* Outcomes of GET /request (96-126): a 200 answer with its results, or a
\* failure: 401, another status, a timeout, a transport error.
ListFailures == {"401", "other_status", "timeout", "client_error"}

\* Outcomes of GET /movie/{id} or /tv/{id} (168-198).
DetailBodies ==
    { [title |-> "Dune: Part Two", poster_path |-> "/d.jpg", vote_average |-> 850],
      [name |-> "Andor"] }
DetailAnswers ==
    { [kind |-> "200", body |-> <<b>>] : b \in DetailBodies }
    \cup { [kind |-> k, body |-> NoObject] :
             k \in {"200_invalid_json", "other_status", "timeout", "client_error"} }

\* Inputs of the enrichment: every combination of an absent, null, empty
\* and filled title and name in the embedded media and in the detail
\* answer, with the other display fields absent, empty, null or filled.
Absent == "absent"
Opt(key, v) == IF v = Absent THEN EmptyDict ELSE key :> v

MediaTexts  == {Absent, None, "", "Dune"}
DetailTexts == {Absent, None, "", "Arrakis"}

MediaRest ==
    { EmptyDict,
      [ overview |-> "A desert planet.", releaseDate |-> "2021-09-15",
        voteAverage |-> 780, runtime |-> 155,
        genres |-> <<[name |-> "Drama"]>>, backdropPath |-> "/b.jpg" ] }
EnrichRequests ==
    { [ status |-> 1,
        media |-> [tmdbId |-> 604] @@ Opt("title", t) @@ Opt("name", n) @@ r ] :
        t \in MediaTexts, n \in MediaTexts, r \in MediaRest }
EnrichLists == { WithIds(<<r>>) : r \in EnrichRequests }

DetailRest ==
    { EmptyDict,
      [ overview |-> "", release_date |-> "", vote_average |-> 0, runtime |-> 0,
        genres |-> << >>, poster_path |-> "", backdrop_path |-> "" ],
      [ overview |-> None, release_date |-> None, vote_average |-> NoneNum,
        runtime |-> NoneNum, poster_path |-> None, backdrop_path |-> None ],
      [ overview |-> "Paul travels.", release_date |-> "2024-02-27",
        vote_average |-> 850, runtime |-> 166,
        genres |-> <<[name |-> "Adventure"]>>,
        poster_path |-> "/d.jpg", backdrop_path |-> "/e.jpg" ] }
EnrichDetailBodies ==
    { Opt("title", t) @@ Opt("name", n) @@ r :
        t \in DetailTexts, n \in DetailTexts, r \in DetailRest }
EnrichDetailAnswers ==
    { [kind |-> "200", body |-> <<b>>] : b \in EnrichDetailBodies }
    \cup { [kind |-> k, body |-> NoObject] :
             k \in {"200_invalid_json", "other_status", "timeout", "client_error"} }

\* -------------------------------------------------- the loop body (314-409)
Buckets0 == [s \in KnownStatuses |-> << >>]

IdleCycle ==
    [ phase |-> "idle", results |-> << >>, status_counts |-> EmptyDict,
      recent_requests |-> << >>, detailed |-> Buckets0, idx |-> 1,
      enriched |-> 0, calls |-> << >>, error |-> "",
      prev |-> 0, fired |-> NoObject ]

\* Variant of Classify: the bucket test is <= instead of <.
Classify_BucketOffByOne(L, e) ==
    LET info   == RequestInfo(L.results[L.idx], e)
        recent == IF Len(L.recent_requests) < RecentCap
                  THEN Append(L.recent_requests, info)
                  ELSE L.recent_requests
    IN  IF info.status \notin DOMAIN L.detailed
        THEN [ L EXCEPT !.phase = "failed", !.error = "KeyError",
                        !.recent_requests = recent, !.enriched = @ + 1 ]
        ELSE [ L EXCEPT !.recent_requests = recent, !.enriched = @ + 1,
                        !.detailed[info.status] =
                            IF Len(@) <= BucketCap THEN Append(@, info) ELSE @,
                        !.idx = @ + 1 ]

\* Variant of Classify: recent_requests keeps the latest records, not the
\* first ones.
Classify_RecentKeepsLatest(L, e) ==
    LET info   == RequestInfo(L.results[L.idx], e)
        recent == IF Len(L.recent_requests) < RecentCap
                  THEN Append(L.recent_requests, info)
                  ELSE Append(Tail(L.recent_requests), info)
    IN  IF info.status \notin DOMAIN L.detailed
        THEN [ L EXCEPT !.phase = "failed", !.error = "KeyError",
                        !.recent_requests = recent, !.enriched = @ + 1 ]
        ELSE [ L EXCEPT !.recent_requests = recent, !.enriched = @ + 1,
                        !.detailed[info.status] =
                            IF Len(@) < BucketCap THEN Append(@, info) ELSE @,
                        !.idx = @ + 1 ]

\* Lines 385-409 for results[L.idx], whose enrichment locals are e.
Classify(L, e) ==
    LET info   == RequestInfo(L.results[L.idx], e)
        recent == IF Len(L.recent_requests) < RecentCap
                  THEN Append(L.recent_requests, info)
                  ELSE L.recent_requests
    IN  IF info.status \notin DOMAIN L.detailed
        THEN \* detailed_requests_by_status[status] raises KeyError (408)
             [ L EXCEPT !.phase = "failed", !.error = "KeyError",
                        !.recent_requests = recent, !.enriched = @ + 1 ]
        ELSE [ L EXCEPT !.recent_requests = recent, !.enriched = @ + 1,
                        !.detailed[info.status] =
                            IF Len(@) < BucketCap THEN Append(@, info) ELSE @,
                        !.idx = @ + 1 ]

\* The loop runs without suspending until an iteration awaits a detail
\* call (357), an exception leaves it, or the results are exhausted.
\* (The locals after an iteration are bound as a value before the next
\* iteration is entered, so that they are computed once.)
RECURSIVE Advance(_)
Advance(L) ==
    IF L.phase = "failed" THEN L
    ELSE IF L.idx > Len(L.results) THEN [L EXCEPT !.phase = "classified"]
    ELSE LET e == EnrichFromMedia(L.results[L.idx])
         IN  IF NeedsDetail(e)
             THEN [L EXCEPT !.phase = "detail", !.calls = Append(@, L.idx)]
             ELSE CHOOSE after \in { Advance(next) : next \in {Classify(L, e)} } : TRUE

\* async_get_movie_details (168-198): what the await at 357 yields.
\* <<"return", details>> or <<"raise", NoObject>>.
DetailResult(answer) ==
    IF answer.kind = "200" THEN <<"return", answer.body>>
    ELSE IF answer.kind = "200_invalid_json" THEN <<"raise", NoObject>>
    ELSE <<"return", NoObject>>

\* ------------------------------------------- the API client (96-241)
\* What the server and the transport can answer to one HTTP call: a
\* response with a status and a body, a timeout, or a transport error.
\* A body is <<"json", v>> (declared and parsed as JSON; v is <<dict>> or,
\* for an empty or null body, NoObject), "invalid_json" (declared as JSON,
\* not parseable) or "not_json" (another content type).
Statuses == {200, 400, 401, 404, 500}
HttpAnswers(bodies) ==
    { [kind |-> "response", status |-> st, body |-> b] :
        st \in Statuses, b \in bodies }
    \cup { [kind |-> "timeout"], [kind |-> "client_error"] }

PostBodies ==
    { <<"json", <<[message |-> "Request not found"]>> >>,
      <<"json", <<[id |-> 1, status |-> 2]>> >>,
      <<"json", NoObject>>, <<"invalid_json">>, <<"not_json">> }
PostAnswers == HttpAnswers(PostBodies)

ListBodies ==
    { <<"json", <<[results |-> l]>> >> : l \in ConcurrentLists }
    \cup { <<"json", <<[message |-> "Forbidden"]>> >>,
           <<"json", NoObject>>, <<"invalid_json">>, <<"not_json">> }
ListHttpAnswers == HttpAnswers(ListBodies)

NoCall == [op |-> "none"]

\* No async_press of a bulk button is running (button.py 77-100, 143-164).
IdlePress ==
    [ kind |-> "none", queue |-> << >>, idx |-> 1, phase |-> "idle",
      counts |-> EmptyDict, steps |-> << >> ]

\* async_setup_entry has not been called (443).
NoSetup ==
    [ phase |-> "none", outcome |-> "none", answer |-> [kind |-> "none"],
      coordinator |-> FALSE, first_refresh |-> FALSE, services |-> FALSE ]

\* No approve_request or deny_request handler is running (485-504).
IdleService ==
    [ op |-> "none", request_id |-> 0, phase |-> "idle",
      result |-> [kind |-> "none"], refreshes |-> 0 ]

\* No batch handler is running (506-541).
IdleBatch ==
    [ op |-> "none", request_ids |-> << >>, idx |-> 1, phase |-> "idle",
      results |-> << >>, failed |-> << >>, steps |-> << >> ]

\* A call returns a value or raises an exception of some class.  The
\* message of an exception is a record: its fixed text and, under their
\* own keys, the values formatted into it.
Returned(v) == [kind |-> "return", value |-> v]
Raised(class, message) == [kind |-> "raise", class |-> class, message |-> message]
Msg(text) == [text |-> text]

\* await response.json(): the value, or the exception aiohttp raises.  A
\* body of another content type raises ContentTypeError, which is a
\* ClientError; a body that is not parseable raises json.JSONDecodeError,
\* which is a ValueError.
Json(body) ==
    IF body[1] = "json" THEN Returned(body[2])
    ELSE IF body[1] = "not_json"
    THEN Raised("ClientError", Msg("unexpected mimetype"))
    ELSE Raised("ValueError", Msg("Expecting value"))

\* str(err) at 219 and 241; str of asyncio.TimeoutError() is empty.
ErrText(class) == IF class = "TimeoutError" THEN "" ELSE "transport error"

\* async_approve_request (200-219)
ApproveRequest(answer) ==
    IF answer.kind = "timeout"
    THEN Returned([success |-> FALSE, error |-> ErrText("TimeoutError")])
    ELSE IF answer.kind = "client_error"
    THEN Returned([success |-> FALSE, error |-> ErrText("ClientError")])
    ELSE LET response_data == Json(answer.body)       \* 210
         IN  IF response_data.kind = "raise"
             THEN IF response_data.class = "ClientError"
                  THEN Returned([success |-> FALSE,            \* 217-219
                                 error |-> response_data.message.text])
                  ELSE response_data
             ELSE IF answer.status = 200
             THEN Returned([success |-> TRUE, data |-> response_data.value])
             ELSE IF response_data.value = NoObject
             THEN Raised("AttributeError", Msg("'NoneType' object has no attribute 'get'"))
             ELSE Returned([success |-> FALSE,
                            error |-> Get(response_data.value[1], "message",
                                          "Unknown error")])

\* async_deny_request (221-241)
DenyRequest(answer) ==
    IF answer.kind = "timeout"
    THEN Returned([success |-> FALSE, error |-> ErrText("TimeoutError")])
    ELSE IF answer.kind = "client_error"
    THEN Returned([success |-> FALSE, error |-> ErrText("ClientError")])
    ELSE LET response_data == Json(answer.body)       \* 231
         IN  IF response_data.kind = "raise"
             THEN IF response_data.class = "ClientError"
                  THEN Returned([success |-> FALSE,            \* 239-241
                                 error |-> response_data.message.text])
                  ELSE response_data
             ELSE IF answer.status = 200
             THEN Returned([success |-> TRUE, data |-> response_data.value])
             ELSE IF response_data.value = NoObject
             THEN Raised("AttributeError", Msg("'NoneType' object has no attribute 'get'"))
             ELSE Returned([success |-> FALSE,
                            error |-> Get(response_data.value[1], "message",
                                          "Unknown error")])

\* async_get_requests (96-126).  The message of the error raised at 119
\* is built from the status; the text of the body goes to the log (118).
GetRequests(answer) ==
    IF answer.kind = "timeout"
    THEN Raised("JellyseerrConnectionError", Msg("Connection timeout"))    \* 120-122
    ELSE IF answer.kind = "client_error"
    THEN Raised("JellyseerrConnectionError", Msg(ErrText("ClientError")))  \* 123-125
    ELSE IF answer.status = 401
    THEN Raised("JellyseerrAuthenticationError", Msg("Invalid API key"))   \* 111-112
    ELSE IF answer.status = 200
    THEN LET data_ == Json(answer.body)                                \* 114
         IN  IF data_.kind = "raise"
             THEN IF data_.class = "ClientError"
                  THEN Raised("JellyseerrConnectionError", data_.message)
                  ELSE data_
             ELSE IF data_.value = NoObject                            \* 115
             THEN Raised("AttributeError", Msg("'NoneType' object has no attribute 'get'"))
             ELSE data_
    ELSE Raised("JellyseerrError",                                      \* 117-119
                [text |-> "API returned", status |-> answer.status])

\* ------------------------------------------- JellyseerrAPI.__init__ (70-94)
\* A string is the sequence of its characters.
HttpPrefix  == <<"h", "t", "t", "p", ":", "/", "/">>
HttpsPrefix == <<"h", "t", "t", "p", "s", ":", "/", "/">>
ApiPath     == <<"/", "a", "p", "i", "/", "v", "1">>

\* str.startswith
StartsWith(str, prefix) ==
    Len(str) >= Len(prefix) /\ SubSeq(str, 1, Len(prefix)) = prefix

\* The decimal text of a natural number, as {port} is formatted at 92.
DigitChars == <<"0", "1", "2", "3", "4", "5", "6", "7", "8", "9">>
RECURSIVE Digits(_)
Digits(n) ==
    IF n < 10 THEN <<DigitChars[n + 1]>>
    ELSE Digits(n \div 10) \o <<DigitChars[(n % 10) + 1]>>

\* Variant of BaseUrl: a default port of either scheme is left out.
BaseUrl_EitherDefaultPort(host, port, ssl) ==
    IF StartsWith(host, HttpPrefix) \/ StartsWith(host, HttpsPrefix)
    THEN host \o ApiPath
    ELSE LET protocol == IF ssl THEN <<"h", "t", "t", "p", "s">>
                         ELSE <<"h", "t", "t", "p">>
         IN  IF port = 443 \/ port = 80
             THEN protocol \o <<":", "/", "/">> \o host \o ApiPath
             ELSE protocol \o <<":", "/", "/">> \o host \o <<":">>
                    \o Digits(port) \o ApiPath

\* self._base_url (80-92)
BaseUrl(host, port, ssl) ==
    IF StartsWith(host, HttpPrefix) \/ StartsWith(host, HttpsPrefix)   \* 80
    THEN host \o ApiPath                                              \* 81
    ELSE LET protocol == IF ssl THEN <<"h", "t", "t", "p", "s">>       \* 83
                         ELSE <<"h", "t", "t", "p">>
         IN  IF ssl /\ port = 443                                     \* 84
             THEN protocol \o <<":", "/", "/">> \o host \o ApiPath
             ELSE IF ~ssl /\ port = 80                                \* 87
             THEN protocol \o <<":", "/", "/">> \o host \o ApiPath
             ELSE protocol \o <<":", "/", "/">> \o host \o <<":">>     \* 92
                    \o Digits(port) \o ApiPath

\* The arguments of the constructor: host names with and without a
\* leading scheme (also one in capitals and one with a single slash),
\* the default ports of both schemes and two others, the TLS flag.
MediaExampleCom ==
    <<"m", "e", "d", "i", "a", ".", "e", "x", "a", "m", "p", "l", "e",
      ".", "c", "o", "m">>
ProxySub == <<"p", "r", "o", "x", "y", "/", "s", "u", "b">>
HostNames ==
    { MediaExampleCom, ProxySub, <<"h", "t", "t", "p">>, <<"n", "a", "s">> }
HostPrefixes ==
    { << >>, HttpPrefix, HttpsPrefix,
      <<"H", "T", "T", "P", ":", "/", "/">>, <<"h", "t", "t", "p", ":", "/">> }
Hosts == { prefix \o name : prefix \in HostPrefixes, name \in HostNames }
Ports == {80, 443, 5055, 8443}

\* The answers to GET /movie/{id} or /tv/{id} as HTTP answers.
DetailHttpBodies ==
    { <<"json", <<b>> >> : b \in DetailBodies }
    \cup { <<"json", NoObject>>, <<"invalid_json">>, <<"not_json">> }
DetailHttpAnswers == HttpAnswers(DetailHttpBodies)

MediaTypes == {"movie", "tv"}

\* The URL of a detail call (171-174), as its parts.
DetailUrl(tmdb_id, media_type) ==
    <<"base_url", IF media_type = "tv" THEN "/tv/" ELSE "/movie/", tmdb_id>>

\* async_get_movie_details (168-198).  The message logged at 184 is
\* formatted before it is logged, so details.get runs on whatever
\* response.json() returned.
GetMovieDetails(answer) ==
    IF answer.kind \in {"timeout", "client_error"}
    THEN Returned(NoObject)                                  \* 196-198
    ELSE IF answer.status = 200
    THEN LET details == Json(answer.body)                    \* 183
         IN  IF details.kind = "raise"
             THEN IF details.class = "ClientError"
                  THEN Returned(NoObject)                    \* 196-198
                  ELSE details
             ELSE IF details.value = NoObject                \* 184
             THEN Raised("AttributeError", Msg("'NoneType' object has no attribute 'get'"))
             ELSE details                                    \* 193
    ELSE Returned(NoObject)                                  \* 195, 198

\* The answers to GET /settings/public (245-252).
ServerInfoBodies ==
    { <<"json", <<[version |-> "2.1.0"]>> >>,
      <<"json", <<[initialized |-> TRUE]>> >>,
      <<"json", NoObject>>, <<"invalid_json">>, <<"not_json">> }
ServerInfoAnswers == HttpAnswers(ServerInfoBodies)

\* async_test_connection (243-262): what the call yields and the value of
\* _server_info after it, given the value before it.  The error raised
\* at 258 is no ClientError and passes the except at 260.
TestConnection(answer, info) ==
    IF answer.kind = "timeout"
    THEN [result |-> Raised("JellyseerrConnectionError", Msg(ErrText("TimeoutError"))),
          server_info |-> info]                                       \* 260-262
    ELSE IF answer.kind = "client_error"
    THEN [result |-> Raised("JellyseerrConnectionError", Msg(ErrText("ClientError"))),
          server_info |-> info]                                       \* 260-262
    ELSE IF answer.status = 200
    THEN LET parsed == Json(answer.body)                              \* 255
         IN  IF parsed.kind = "raise"
             THEN [result |-> IF parsed.class = "ClientError"
                              THEN Raised("JellyseerrConnectionError", parsed.message)
                              ELSE parsed,
                   server_info |-> info]
             ELSE [result |-> Returned(TRUE), server_info |-> parsed.value]  \* 255-256
    ELSE IF answer.status = 401
    THEN [result |-> Raised("JellyseerrAuthenticationError", Msg("Invalid API key")),
          server_info |-> info]                                       \* 257-258
    ELSE [result |-> Returned(FALSE), server_info |-> info]           \* 259

\* async_get_server_info (264-268): the answer is used only when the
\* connection test is called, that is when nothing is cached.
GetServerInfo(answer, info) ==
    IF info = NoObject
    THEN LET t == TestConnection(answer, info)                        \* 266-267
         IN  [called |-> TRUE,
              result |-> IF t.result.kind = "raise" THEN t.result
                         ELSE Returned(t.server_info),                \* 268
              server_info |-> t.server_info]
    ELSE [called |-> FALSE, result |-> Returned(info), server_info |-> info]

\* ------------------- concurrent detail lookups (src/__init__.py 191-314)
\* The copy of the coordinator that looks every record up concurrently.
\* asyncio.Semaphore(5)  (238)
SemaphoreSlots == 5

LegacyLists ==
    { WithIds(h \o Fill(n)) : h \in SeqsUpTo(RequestKinds, 1), n \in 0..MaxFanOut }

\* The answers a lookup can end with: a body, None, or an exception that
\* gather hands back as the result (244); 261 treats the last two alike.
LegacyDetails == { DetailResult(a)[2] : a \in DetailAnswers }

IdleFanOut ==
    [ phase |-> "idle", results |-> << >>, tasks |-> << >>,
      detail_results |-> << >>, returned |-> NoObject ]

\* tmdb_id  (224-225)
TmdbIdOf(request) == Get(Get(request, "media", EmptyDict), "tmdbId", NoneNum)

\* detail_tasks (223-235): a lookup for a record with a tmdbId, a
\* placeholder that yields None for the others.
DetailTasks(results) ==
    [ i \in 1..Len(results) |->
        [ kind  |-> IF TruthyN(TmdbIdOf(results[i]))
                    THEN "lookup" ELSE "placeholder",
          state |-> "waiting" ] ]

\* Tasks that hold the semaphore (241-242).
Holding(tasks) == { i \in 1..Len(tasks) : tasks[i].state = "running" }

\* Detail calls in flight.
LookupsInFlight(tasks) == { i \in Holding(tasks) : tasks[i].kind = "lookup" }

\* request_info (247-291) for record i; of its keys those no consumer of
\* this model reads (title, overview, genres, runtime, dates) are left out.
LegacyRequestInfo(request, details) ==
    LET found == details # NoObject /\ DOMAIN details[1] # {}
        poster_path == IF found THEN Get(details[1], "poster_path", None) ELSE None
    IN  [ id           |-> Get(request, "id", NoneNum),
          status       |-> Get(request, "status", DefaultStatus),
          requested_by |-> Get(Get(request, "requestedBy", EmptyDict),
                               "displayName", "Unknown"),
          tmdb_id      |-> TmdbIdOf(request),
          poster_url   |-> IF TruthyS(poster_path)
                           THEN <<PosterBase, poster_path>> ELSE NoObject,
          rating       |-> IF found THEN Get(details[1], "vote_average", 0) ELSE 0 ]

\* The loop at 247-299 from record i on; F holds recent_requests, detailed
\* and failed (the KeyError of the bucket lookup at 298).
RECURSIVE LegacyLoop(_, _, _, _)
LegacyLoop(F, results, detail_results, i) ==
    IF i > Len(results) \/ F.failed THEN F
    ELSE LET info   == LegacyRequestInfo(results[i], detail_results[i])
             recent == IF Len(F.recent_requests) < RecentCap
                       THEN Append(F.recent_requests, info)
                       ELSE F.recent_requests
         IN  IF info.status \notin DOMAIN F.detailed
             THEN [F EXCEPT !.failed = TRUE]
             ELSE LegacyLoop(
                    [F EXCEPT !.recent_requests = recent,
                              !.detailed[info.status] =
                                  IF Len(@) < BucketCap THEN Append(@, info) ELSE @],
                    results, detail_results, i + 1)

\* What follows the return of gather (246-314): the dict, or UpdateFailed.
AfterGather(G) ==
    LET F == LegacyLoop([recent_requests |-> << >>, detailed |-> Buckets0,
                         failed |-> FALSE],
                        G.results, G.detail_results, 1)
    IN  IF F.failed THEN [G EXCEPT !.phase = "failed"]
        ELSE [G EXCEPT !.phase = "returned",
                       !.returned =
                           << [ status_counts     |-> StatusCounts(G.results),
                                recent_requests   |-> F.recent_requests,
                                detailed_requests |-> F.detailed,
                                raw_results       |-> G.results ] >>]

\* ------------------------------------------------------------------ state
VARIABLES
    data,                \* coordinator.data: NoObject or <<snapshot>>
    last_pending_count,  \* coordinator._last_pending_count
    cycle,               \* the locals of the running _async_update_data calls
    is_on,               \* switch._is_on
    unsubscribe,         \* switch._unsubscribe: NoHandle or a listener handle
    listeners,           \* the bus listeners each switch has registered
    entity,              \* where each switch entity is in its life
    fanout,              \* the locals of the concurrent-lookup _async_update_data
    api_call,            \* the last call of the API client that ended
    server_info,         \* api._server_info
    setup,               \* where async_setup_entry of the config entry is
    service,             \* the locals of the running approve/deny service handler
    api,                 \* the JellyseerrAPI object made last: its arguments and _base_url
    trusted_users,       \* _trusted_users of the trusted-user switch
    tasks,               \* the _process_new_requests tasks created so far
    batch,               \* the locals of the running batch service handler
    button               \* the locals of the running async_press of a bulk button

cycleVars  == <<data, last_pending_count, cycle, tasks>>
switchVars == <<is_on, unsubscribe, listeners, entity>>
entryVars  == <<api_call, server_info, setup, service, api>>
restVars   == <<fanout, entryVars, trusted_users, batch, button>>
vars       == <<data, last_pending_count, cycle, is_on, unsubscribe,
                listeners, entity, fanout, api_call, server_info, setup, service,
                api, trusted_users, tasks, batch, button>>

\* The callers of _async_update_data: the interval refresh of the host and
\* the refresh a service handler awaits (491).
Callers  == {"interval", "service"}
Switches == {"auto_approval", "high_rated", "trusted"}
NoHandle == 0

InFlight(c) == cycle[c].phase \in {"fetching", "detail"}

Init ==
    /\ data = NoObject
    /\ last_pending_count = 0
    /\ cycle = [c \in Callers |-> IdleCycle]
    /\ is_on = [s \in Switches |-> FALSE]
    /\ unsubscribe = [s \in Switches |-> NoHandle]
    /\ listeners = [s \in Switches |-> {}]
    /\ entity = [s \in Switches |-> "created"]
    /\ fanout = IdleFanOut
    /\ api_call = NoCall
    /\ server_info = NoObject
    /\ setup = NoSetup
    /\ service = IdleService
    /\ api = NoObject
    /\ trusted_users = {}
    /\ tasks = << >>
    /\ batch = IdleBatch
    /\ button = IdlePress

\* ------------------------------------------ end of a cycle (411-441)
Min(a, b) == IF a < b THEN a ELSE b

\* seq[:n] for n >= 0
Take(seq, n) == SubSeq(seq, 1, Min(n, Len(seq)))

\* The event fired at 416-422, or NoObject when the count did not rise.
NewRequestsEvent(L, last) ==
    LET current_pending_count == Get(L.status_counts, Pending, 0)
        new_count == current_pending_count - last
    IN  IF current_pending_count > last
        THEN << [ count |-> new_count,
                  requests |-> Take(L.detailed[Pending], new_count) ] >>
        ELSE NoObject

\* The dict returned at 427-434.
Snapshot(L) ==
    [ status_counts   |-> L.status_counts,
      recent_requests |-> L.recent_requests,
      detailed_requests |-> L.detailed,
      raw_results     |-> L.results ]

\* A set of listener handles in the order they were registered.
RECURSIVE InOrder(_)
InOrder(S) ==
    IF S = {} THEN << >>
    ELSE LET h == CHOOSE x \in S : \A y \in S : x <= y
         IN  <<h>> \o InOrder(S \ {h})

\* _handle_new_requests (switch.py 82-85), once per live listener of
\* switch s: a switch that is on creates a task for the event data.
NewTasks(s, event_data) ==
    IF is_on[s]
    THEN [ i \in 1..Len(InOrder(listeners[s])) |->
             [ switch |-> s, requests |-> Get(event_data, "requests", << >>),
               idx |-> 1, phase |-> "scheduled",
               calls |-> << >>, outcomes |-> << >>, audits |-> << >> ] ]
    ELSE << >>

\* hass.bus.async_fire (416-422): the bus runs the listeners of the event.
Deliver(fired) ==
    IF fired = NoObject THEN tasks
    ELSE tasks \o NewTasks("auto_approval", fired[1])
               \o NewTasks("high_rated", fired[1])
               \o NewTasks("trusted", fired[1])

\* Variant of Settle: the dict is also returned from inside the loop, while
\* a detail call is still awaited.
Settle_PublishesPartial(c, L) ==
    IF L.phase \in {"classified", "detail"}
    THEN /\ cycle' = [cycle EXCEPT ![c] =
                        [L EXCEPT !.phase = "published",
                                  !.prev = last_pending_count,
                                  !.fired = NewRequestsEvent(L, last_pending_count)]]
         /\ last_pending_count' = Get(L.status_counts, Pending, 0)
         /\ tasks' = Deliver(NewRequestsEvent(L, last_pending_count))
         /\ data' = <<Snapshot(L)>>
    ELSE /\ cycle' = [cycle EXCEPT ![c] = L]
         /\ UNCHANGED <<data, last_pending_count, tasks>>

\* Variant of Settle: the new values are written into the published dict
\* key by key, and only the counts and the raw results are written.
Settle_MergesIntoOld(c, L) ==
    IF L.phase = "classified"
    THEN /\ cycle' = [cycle EXCEPT ![c] =
                        [L EXCEPT !.phase = "published",
                                  !.prev = last_pending_count,
                                  !.fired = NewRequestsEvent(L, last_pending_count)]]
         /\ last_pending_count' = Get(L.status_counts, Pending, 0)
         /\ tasks' = Deliver(NewRequestsEvent(L, last_pending_count))
         /\ data' = IF data = NoObject THEN <<Snapshot(L)>>
                    ELSE << [data[1] EXCEPT !.status_counts = L.status_counts,
                                            !.raw_results = L.results] >>
    ELSE /\ cycle' = [cycle EXCEPT ![c] = L]
         /\ UNCHANGED <<data, last_pending_count, tasks>>

\* Variant of Settle: the previous Pending count is stored only when the
\* event is fired.
Settle_StoresOnlyWhenRisen(c, L) ==
    IF L.phase = "classified"
    THEN /\ cycle' = [cycle EXCEPT ![c] =
                        [L EXCEPT !.phase = "published",
                                  !.prev = last_pending_count,
                                  !.fired = NewRequestsEvent(L, last_pending_count)]]
         /\ last_pending_count' =
              IF Get(L.status_counts, Pending, 0) > last_pending_count
              THEN Get(L.status_counts, Pending, 0) ELSE last_pending_count
         /\ tasks' = Deliver(NewRequestsEvent(L, last_pending_count))
         /\ data' = <<Snapshot(L)>>
    ELSE /\ cycle' = [cycle EXCEPT ![c] = L]
         /\ UNCHANGED <<data, last_pending_count, tasks>>

\* What the code does once the loop has stopped at L: publish (411-434,
\* the host stores the returned dict), raise UpdateFailed (436-441, the host
\* keeps its data), or stay suspended in the detail call.
Settle(c, L) ==
    IF L.phase = "classified"
    THEN /\ cycle' = [cycle EXCEPT ![c] =
                        [L EXCEPT !.phase = "published",
                                  !.prev = last_pending_count,
                                  !.fired = NewRequestsEvent(L, last_pending_count)]]
         /\ last_pending_count' = Get(L.status_counts, Pending, 0)
         /\ tasks' = Deliver(NewRequestsEvent(L, last_pending_count))
         /\ data' = <<Snapshot(L)>>
    ELSE /\ cycle' = [cycle EXCEPT ![c] = L]
         /\ UNCHANGED <<data, last_pending_count, tasks>>

\* ---------------------------------------------------------------- actions
\* _async_update_data is entered and awaits the list fetch (286-289).
StartCycle(c) ==
    /\ ~InFlight(c)
    /\ cycle' = [cycle EXCEPT ![c] = [IdleCycle EXCEPT !.phase = "fetching"]]
    /\ UNCHANGED <<data, last_pending_count, tasks>>

\* Variant of ListFails: the failed cycle also drops the published data.
ListFails_DropsData(c) ==
    /\ cycle[c].phase = "fetching"
    /\ \E f \in ListFailures :
         cycle' = [cycle EXCEPT ![c] = [@ EXCEPT !.phase = "failed", !.error = f]]
    /\ data' = NoObject
    /\ UNCHANGED <<last_pending_count, tasks>>

\* The list fetch fails: async_get_requests raises (111-126), the cycle
\* raises UpdateFailed (436-438).
ListFails(c) ==
    /\ cycle[c].phase = "fetching"
    /\ \E f \in ListFailures :
         cycle' = [cycle EXCEPT ![c] = [@ EXCEPT !.phase = "failed", !.error = f]]
    /\ UNCHANGED <<data, last_pending_count, tasks>>

\* The list fetch answers 200: tally (294-301), then the loop (314-409).
ListAnswers(c, lists) ==
    /\ cycle[c].phase = "fetching"
    /\ \E results \in lists :
         \E L \in { [cycle[c] EXCEPT !.phase = "enriching",
                                      !.results = results,
                                      !.status_counts = StatusCounts(results)] } :
           \E stopped \in { Advance(L) } : Settle(c, stopped)

\* Variant of DetailAnswerFrom: a detail call that timed out starts the
\* cycle again from the list fetch.
DetailAnswerFrom_RestartsOnTimeout(c, answers) ==
    /\ cycle[c].phase = "detail"
    /\ \E answer \in answers :
         \E L \in { [cycle[c] EXCEPT !.phase = "enriching"] } :
           LET r == DetailResult(answer)
           IN  IF answer.kind = "timeout"
               THEN /\ cycle' = [cycle EXCEPT ![c] =
                                   [IdleCycle EXCEPT !.phase = "fetching"]]
                    /\ UNCHANGED <<data, last_pending_count, tasks>>
               ELSE IF r[1] = "raise"
               THEN Settle(c, [L EXCEPT !.phase = "failed", !.error = "ValueError"])
               ELSE \E classified \in
                        { Classify(L, Overlay(EnrichFromMedia(L.results[L.idx]), r[2])) } :
                      \E stopped \in { Advance(classified) } : Settle(c, stopped)

\* The awaited detail call ends (357): overlay, classify, go on looping.
\* (The locals are bound as values, \E x \in {v}, so that each is computed
\* once.)
DetailAnswerFrom(c, answers) ==
    /\ cycle[c].phase = "detail"
    /\ \E answer \in answers :
         \E L \in { [cycle[c] EXCEPT !.phase = "enriching"] } :
           LET r == DetailResult(answer)
           IN  IF r[1] = "raise"
               THEN Settle(c, [L EXCEPT !.phase = "failed", !.error = "ValueError"])
               ELSE \E classified \in
                        { Classify(L, Overlay(EnrichFromMedia(L.results[L.idx]), r[2])) } :
                      \E stopped \in { Advance(classified) } : Settle(c, stopped)

DetailAnswer(c) == DetailAnswerFrom(c, DetailAnswers)

\* The host's interval refresh.
IntervalRefresh == StartCycle("interval") /\ UNCHANGED <<switchVars, restVars>>
IntervalListFails == ListFails("interval") /\ UNCHANGED <<switchVars, restVars>>
IntervalListAnswers == ListAnswers("interval", ResultLists) /\ UNCHANGED <<switchVars, restVars>>
IntervalDetailAnswer == DetailAnswer("interval") /\ UNCHANGED <<switchVars, restVars>>

Next ==
    \/ IntervalRefresh
    \/ IntervalListFails
    \/ IntervalListAnswers
    \/ IntervalDetailAnswer

Spec == Init /\ [][Next]_vars

\* ------------------------------------- a cycle whose HTTP calls end
\* The list answers of the specification of the cycle's progress: lists
\* of pending requests of which every one, or every second one, needs a
\* detail call, and a request of a status without a bucket.
CycleLists ==
    { WithIds([i \in 1..n |-> PendingNoPoster]) : n \in 0..MaxLen }
    \cup { WithIds([i \in 1..n |-> IF i % 2 = 1 THEN PendingWithPoster
                                    ELSE PendingNoPoster]) : n \in 0..MaxLen }
    \cup { WithIds(<<UnknownStatus>>) }
CycleListAnswers ==
    ListAnswers("interval", CycleLists) /\ UNCHANGED <<switchVars, restVars>>

NextCycle ==
    \/ IntervalRefresh
    \/ IntervalListFails
    \/ CycleListAnswers
    \/ IntervalDetailAnswer

\* Every HTTP call is made under async_timeout.timeout (104: 10, 180: 8),
\* so an awaited call ends: by an answer or by the timeout.
SpecCycle ==
    /\ Init /\ [][NextCycle]_vars
    /\ WF_vars(IntervalListFails \/ CycleListAnswers)
    /\ WF_vars(IntervalDetailAnswer)

\* ------------------------- successive cycles over the server's requests
NumberedListAnswers ==
    ListAnswers("interval", NumberedLists) /\ UNCHANGED <<switchVars, restVars>>

NextDelta ==
    \/ IntervalRefresh
    \/ IntervalListFails
    \/ NumberedListAnswers

SpecDelta == Init /\ [][NextDelta]_vars

\* The interval refresh on the inputs of the enrichment.
EnrichListAnswers ==
    ListAnswers("interval", EnrichLists) /\ UNCHANGED <<switchVars, restVars>>
EnrichDetailAnswer ==
    DetailAnswerFrom("interval", EnrichDetailAnswers)
    /\ UNCHANGED <<switchVars, restVars>>

NextEnrich ==
    \/ IntervalRefresh
    \/ IntervalListFails
    \/ EnrichListAnswers
    \/ EnrichDetailAnswer

SpecEnrich == Init /\ [][NextEnrich]_vars

\* ------------------------------------- on-demand refresh (485-493)
\* The approve_request handler: the approve call returned success and the
\* handler awaits coordinator.async_refresh(), which enters
\* _async_update_data; nothing in the handler or in the coordinator looks
\* at a cycle that is already running.  The handlers are registered after
\* the first refresh has succeeded (473-485).
ServiceRefresh ==
    /\ data # NoObject
    /\ StartCycle("service")
    /\ UNCHANGED <<switchVars, restVars>>
ServiceListFails == ListFails("service") /\ UNCHANGED <<switchVars, restVars>>
ServiceListAnswers ==
    ListAnswers("service", ConcurrentLists) /\ UNCHANGED <<switchVars, restVars>>
ServiceDetailAnswer == DetailAnswer("service") /\ UNCHANGED <<switchVars, restVars>>
IntervalShortListAnswers ==
    ListAnswers("interval", ConcurrentLists) /\ UNCHANGED <<switchVars, restVars>>

NextConcurrent ==
    \/ IntervalRefresh
    \/ IntervalListFails
    \/ IntervalShortListAnswers
    \/ IntervalDetailAnswer
    \/ ServiceRefresh
    \/ ServiceListFails
    \/ ServiceListAnswers
    \/ ServiceDetailAnswer

SpecConcurrent == Init /\ [][NextConcurrent]_vars

\* The same two callers on list answers of pending requests only.
IntervalOverlapListAnswers ==
    ListAnswers("interval", OverlapLists) /\ UNCHANGED <<switchVars, restVars>>
ServiceOverlapListAnswers ==
    ListAnswers("service", OverlapLists) /\ UNCHANGED <<switchVars, restVars>>

NextOverlap ==
    \/ IntervalRefresh
    \/ IntervalListFails
    \/ IntervalOverlapListAnswers
    \/ IntervalDetailAnswer
    \/ ServiceRefresh
    \/ ServiceListFails
    \/ ServiceOverlapListAnswers
    \/ ServiceDetailAnswer

SpecOverlap == Init /\ [][NextOverlap]_vars

\* ------------------------------------------ the switches (switch.py 52-106)
\* _start_monitoring (79-90): a new listener is registered on the bus and
\* its remover is stored in _unsubscribe, whatever _unsubscribe held.
StartMonitoring(s) ==
    LET handle == CHOOSE h \in 1..(Cardinality(listeners[s]) + 1) :
                     h \notin listeners[s]
    IN  /\ listeners' = [listeners EXCEPT ![s] = @ \cup {handle}]
        /\ unsubscribe' = [unsubscribe EXCEPT ![s] = handle]

\* _stop_monitoring (92-96)
StopMonitoring(s) ==
    IF unsubscribe[s] # NoHandle
    THEN /\ listeners' = [listeners EXCEPT ![s] = @ \ {unsubscribe[s]}]
         /\ unsubscribe' = [unsubscribe EXCEPT ![s] = NoHandle]
    ELSE UNCHANGED <<listeners, unsubscribe>>

\* async_added_to_hass (52-60); last_state is what the host restores.
AddedToHass(s) ==
    /\ entity[s] = "created"
    /\ entity' = [entity EXCEPT ![s] = "added"]
    /\ \E last_state \in {"none", "off", "on"} :
         IF last_state = "on"
         THEN /\ is_on' = [is_on EXCEPT ![s] = TRUE]
              /\ StartMonitoring(s)
         ELSE UNCHANGED <<is_on, listeners, unsubscribe>>
    /\ UNCHANGED <<cycleVars, restVars>>

\* async_turn_on (67-71)
TurnOn(s) ==
    /\ entity[s] = "added"
    /\ Cardinality(listeners[s]) < MaxListeners
    /\ is_on' = [is_on EXCEPT ![s] = TRUE]
    /\ StartMonitoring(s)
    /\ UNCHANGED <<entity, cycleVars, restVars>>

\* async_turn_off (73-77)
TurnOff(s) ==
    /\ entity[s] = "added"
    /\ is_on' = [is_on EXCEPT ![s] = FALSE]
    /\ StopMonitoring(s)
    /\ UNCHANGED <<entity, cycleVars, restVars>>

\* async_will_remove_from_hass (104-106)
WillRemoveFromHass(s) ==
    /\ entity[s] = "added"
    /\ entity' = [entity EXCEPT ![s] = "removed"]
    /\ StopMonitoring(s)
    /\ UNCHANGED <<is_on, cycleVars, restVars>>

NextSwitch ==
    \E s \in Switches :
      \/ AddedToHass(s)
      \/ TurnOn(s)
      \/ TurnOff(s)
      \/ WillRemoveFromHass(s)

SpecSwitch == Init /\ [][NextSwitch]_vars

\* ------------------------------- the rules (switch.py 98-102, 128-183)
\* _rating_threshold = 7.5  (switch.py 118), in hundredths
RatingThreshold == 750

\* The configurations of trusted users (switch.py 157).
TrustedConfigs == { {}, {"alice"} }

\* Variant of Matches: an empty list of trusted users trusts everyone.
Matches_EmptyTrustsAll(s, request, trusted) ==
    IF s = "high_rated" THEN Get(request, "rating", 0) >= RatingThreshold
    ELSE IF s = "trusted"
    THEN trusted = {} \/ Get(request, "requested_by", None) \in trusted
    ELSE FALSE

\* Variant of Matches: the rating test is strict.
Matches_Strict(s, request, trusted) ==
    IF s = "high_rated" THEN Get(request, "rating", 0) > RatingThreshold
    ELSE IF s = "trusted" THEN Get(request, "requested_by", None) \in trusted
    ELSE FALSE

\* The test a rule applies to one carried request (131, 170); the base
\* switch has no loop (98-102).
Matches(s, request, trusted) ==
    IF s = "high_rated" THEN Get(request, "rating", 0) >= RatingThreshold
    ELSE IF s = "trusted" THEN Get(request, "requested_by", None) \in trusted
    ELSE FALSE

\* Variant of RuleAdvance: the base switch approves every carried request.
RECURSIVE RuleAdvance_BaseApproves(_, _)
RuleAdvance_BaseApproves(T, trusted) ==
    IF T.idx > Len(T.requests)
    THEN [T EXCEPT !.phase = "done"]
    ELSE IF T.switch = "auto_approval" \/ Matches(T.switch, T.requests[T.idx], trusted)
    THEN [T EXCEPT !.phase = "approving", !.calls = Append(@, T.idx)]
    ELSE RuleAdvance_BaseApproves([T EXCEPT !.idx = @ + 1], trusted)

\* _process_new_requests runs without suspending until it awaits an
\* approve call (133, 172) or its loop ends.
RECURSIVE RuleAdvance(_, _)
RuleAdvance(T, trusted) ==
    IF T.switch = "auto_approval" \/ T.idx > Len(T.requests)
    THEN [T EXCEPT !.phase = "done"]
    ELSE IF Matches(T.switch, T.requests[T.idx], trusted)
    THEN [T EXCEPT !.phase = "approving", !.calls = Append(@, T.idx)]
    ELSE RuleAdvance([T EXCEPT !.idx = @ + 1], trusted)

\* The task the switch created starts running.
RuleStart(t) ==
    /\ t \in 1..Len(tasks)
    /\ tasks[t].phase = "scheduled"
    /\ tasks' = [tasks EXCEPT ![t] = RuleAdvance(@, trusted_users)]
    /\ UNCHANGED <<data, last_pending_count, cycle, switchVars, restVars>>

\* Variant of RuleApproveAnswer: the auto-approved event is fired whatever
\* the result of the call.
RuleApproveAnswer_AlwaysAudits(t) ==
    /\ t \in 1..Len(tasks)
    /\ tasks[t].phase = "approving"
    /\ \E answer \in PostAnswers :
         LET T == tasks[t]
             result == ApproveRequest(answer)
         IN  IF result.kind = "raise"
             THEN tasks' = [tasks EXCEPT ![t] =
                     [T EXCEPT !.phase = "crashed",
                               !.outcomes = Append(@, "raised")]]
             ELSE tasks' = [tasks EXCEPT ![t] =
                     RuleAdvance([T EXCEPT !.outcomes = Append(@, IF result.value.success
                                                    THEN "succeeded" ELSE "failed"),
                                           !.audits = Append(@, T.idx),
                                           !.idx = @ + 1], trusted_users)]
    /\ UNCHANGED <<data, last_pending_count, cycle, switchVars, restVars>>

\* The awaited approve call ends (133-144, 172-183): an exception leaves
\* the task; a succeeded result fires the auto-approved event; the loop
\* goes on.
RuleApproveAnswer(t) ==
    /\ t \in 1..Len(tasks)
    /\ tasks[t].phase = "approving"
    /\ \E answer \in PostAnswers :
         LET T == tasks[t]
             result == ApproveRequest(answer)
         IN  IF result.kind = "raise"
             THEN tasks' = [tasks EXCEPT ![t] =
                     [T EXCEPT !.phase = "crashed",
                               !.outcomes = Append(@, "raised")]]
             ELSE IF result.value.success
             THEN tasks' = [tasks EXCEPT ![t] =
                     RuleAdvance([T EXCEPT !.outcomes = Append(@, "succeeded"),
                                           !.audits = Append(@, T.idx),
                                           !.idx = @ + 1], trusted_users)]
             ELSE tasks' = [tasks EXCEPT ![t] =
                     RuleAdvance([T EXCEPT !.outcomes = Append(@, "failed"),
                                           !.idx = @ + 1], trusted_users)]
    /\ UNCHANGED <<data, last_pending_count, cycle, switchVars, restVars>>

\* The refresh of the specification of the rules: list answers of pending
\* requests that embed their poster, while tasks may still be created.
\* The switches of this specification are turned on by the restore of
\* their last state (switch.py 56-60).
RuleListAnswers ==
    /\ Len(tasks) + Cardinality(listeners["high_rated"])
                  + Cardinality(listeners["trusted"]) <= MaxTasks
    /\ ListAnswers("interval", RuleLists)
    /\ UNCHANGED <<switchVars, restVars>>

RuleSwitches == {"high_rated", "trusted"}

InitRules ==
    /\ data = NoObject
    /\ last_pending_count = 0
    /\ cycle = [c \in Callers |-> IdleCycle]
    /\ is_on = [s \in Switches |-> FALSE]
    /\ unsubscribe = [s \in Switches |-> NoHandle]
    /\ listeners = [s \in Switches |-> {}]
    /\ entity = [s \in Switches |-> "created"]
    /\ fanout = IdleFanOut
    /\ api_call = NoCall
    /\ server_info = NoObject
    /\ setup = NoSetup
    /\ service = IdleService
    /\ api = NoObject
    /\ trusted_users \in TrustedConfigs
    /\ tasks = << >>
    /\ batch = IdleBatch
    /\ button = IdlePress

NextRules ==
    \/ IntervalRefresh
    \/ RuleListAnswers
    \/ \E s \in RuleSwitches : AddedToHass(s)
    \/ \E t \in 1..MaxTasks : RuleStart(t)
    \/ \E t \in 1..MaxTasks : RuleApproveAnswer(t)

SpecRules == InitRules /\ [][NextRules]_vars

\* ------------------- the three switches turned on and off around an event
\* The list answers: pending requests rated 7.5 and requested by alice.
ToggleLists == { WithIds(Fill(MaxRuleLen)) }

\* The tasks the bus would create for an event fired now (82-85).
WouldCreate ==
    LET n(s) == IF is_on[s] THEN Cardinality(listeners[s]) ELSE 0
    IN  n("auto_approval") + n("high_rated") + n("trusted")

\* The three switches have been added to the host with no state to
\* restore (52-60); alice is the trusted user (157).
InitToggles ==
    /\ data = NoObject
    /\ last_pending_count = 0
    /\ cycle = [c \in Callers |-> IdleCycle]
    /\ is_on = [s \in Switches |-> FALSE]
    /\ unsubscribe = [s \in Switches |-> NoHandle]
    /\ listeners = [s \in Switches |-> {}]
    /\ entity = [s \in Switches |-> "added"]
    /\ fanout = IdleFanOut
    /\ api_call = NoCall
    /\ server_info = NoObject
    /\ setup = NoSetup
    /\ service = IdleService
    /\ api = NoObject
    /\ trusted_users = {"alice"}
    /\ tasks = << >>
    /\ batch = IdleBatch
    /\ button = IdlePress

ToggleListAnswers ==
    /\ Len(tasks) + WouldCreate <= MaxToggleTasks
    /\ ListAnswers("interval", ToggleLists)
    /\ UNCHANGED <<switchVars, restVars>>

NextToggles ==
    \/ IntervalRefresh
    \/ ToggleListAnswers
    \/ \E s \in Switches : TurnOn(s)
    \/ \E s \in Switches : TurnOff(s)
    \/ \E t \in 1..MaxToggleTasks : RuleStart(t)
    \/ \E t \in 1..MaxToggleTasks : RuleApproveAnswer(t)

SpecToggles == InitToggles /\ [][NextToggles]_vars

\* The base switch and the rating switch turned on and off around an event.
BaseSwitches == {"auto_approval", "high_rated"}

BaseListAnswers ==
    /\ Len(tasks) + WouldCreate <= MaxTasks
    /\ ListAnswers("interval", RefreshLists)
    /\ UNCHANGED <<switchVars, restVars>>

NextBase ==
    \/ IntervalRefresh
    \/ BaseListAnswers
    \/ \E s \in BaseSwitches : TurnOn(s)
    \/ \E s \in BaseSwitches : TurnOff(s)
    \/ \E t \in 1..MaxTasks : RuleStart(t)
    \/ \E t \in 1..MaxTasks : RuleApproveAnswer(t)

SpecBase == InitToggles /\ [][NextBase]_vars

\* ----------------------------- the batch service handlers (506-541)
\* batch.steps records what the handler has awaited so far: <<"call", id>>
\* for an approve or deny call, <<"sleep">> for asyncio.sleep(0.5),
\* <<"refresh">> for coordinator.async_refresh().
BatchIds == SeqsUpTo(1..MaxRequestId, MaxBatchLen)

\* The handler goes on at request_ids[B.idx]: the next call (511, 530), or
\* after the loop the refresh (517, 536), which enters _async_update_data.
BatchGoOn(B) ==
    IF B.idx > Len(B.request_ids)
    THEN /\ batch' = [B EXCEPT !.phase = "refreshing",
                               !.steps = Append(@, <<"refresh">>)]
         /\ cycle' = [cycle EXCEPT !["service"] =
                        [IdleCycle EXCEPT !.phase = "fetching"]]
    ELSE /\ batch' = [B EXCEPT !.phase = "calling",
                               !.steps = Append(@, <<"call", B.request_ids[B.idx]>>)]
         /\ UNCHANGED cycle

\* A batch service is called (506-510, 524-529); the services exist once
\* the first refresh has succeeded (473-485).
BatchCall(op) ==
    /\ data # NoObject
    /\ batch.phase \in {"idle", "returned", "raised", "crashed"}
    /\ \E request_ids \in BatchIds :
         BatchGoOn([IdleBatch EXCEPT !.op = op, !.request_ids = request_ids])
    /\ UNCHANGED <<data, last_pending_count, tasks, switchVars,
                   fanout, entryVars, trusted_users, button>>

\* The awaited approve or deny call ends (511-514, 530-533): an exception
\* leaves the handler; a succeeded result is followed by the sleep, a failed
\* one by the next iteration.
BatchAnswer ==
    /\ batch.phase = "calling"
    /\ \E answer \in PostAnswers :
         LET result == IF batch.op = "approve" THEN ApproveRequest(answer)
                       ELSE DenyRequest(answer)
             id == batch.request_ids[batch.idx]
         IN  IF result.kind = "raise"
             THEN /\ batch' = [batch EXCEPT !.phase = "crashed"]
                  /\ UNCHANGED cycle
             ELSE IF result.value.success
             THEN /\ batch' = [batch EXCEPT
                                 !.phase = "sleeping",
                                 !.results = Append(@, [id |-> id, success |-> TRUE]),
                                 !.steps = Append(@, <<"sleep">>)]
                  /\ UNCHANGED cycle
             ELSE BatchGoOn([batch EXCEPT
                               !.results = Append(@, [id |-> id, success |-> FALSE]),
                               !.idx = @ + 1])
    /\ UNCHANGED <<data, last_pending_count, tasks, switchVars,
                   fanout, entryVars, trusted_users, button>>

\* asyncio.sleep(0.5) ends (514, 533).
BatchWake ==
    /\ batch.phase = "sleeping"
    /\ BatchGoOn([batch EXCEPT !.idx = @ + 1])
    /\ UNCHANGED <<data, last_pending_count, tasks, switchVars,
                   fanout, entryVars, trusted_users, button>>

\* failed (520-522, 539-541)
FailedIds(results) ==
    LET failures == SelectSeq(results, LAMBDA r : ~r.success)
    IN  [ i \in 1..Len(failures) |-> failures[i].id ]

\* What follows the refresh, whatever its outcome (519-522, 538-541).
BatchReport(B) ==
    [B EXCEPT !.failed = FailedIds(B.results),
              !.phase = IF FailedIds(B.results) # << >> THEN "raised" ELSE "returned"]

\* The refresh the handler awaits ends: its list fetch fails, or answers.
BatchRefreshFails ==
    /\ batch.phase = "refreshing"
    /\ ListFails("service")
    /\ batch' = BatchReport(batch)
    /\ UNCHANGED <<switchVars, fanout, entryVars, trusted_users, button>>

BatchRefreshAnswers ==
    /\ batch.phase = "refreshing"
    /\ ListAnswers("service", RefreshLists)
    /\ batch' = BatchReport(batch)
    /\ UNCHANGED <<switchVars, fanout, entryVars, trusted_users, button>>

\* The interval refresh that precedes the handlers.
HandlerListAnswers ==
    ListAnswers("interval", RefreshLists) /\ UNCHANGED <<switchVars, restVars>>

NextBatch ==
    \/ IntervalRefresh
    \/ HandlerListAnswers
    \/ BatchCall("approve")
    \/ BatchCall("deny")
    \/ BatchAnswer
    \/ BatchWake
    \/ BatchRefreshFails
    \/ BatchRefreshAnswers

SpecBatch == Init /\ [][NextBatch]_vars

\* ------------------------- the bulk buttons (button.py 77-100, 143-164)
\* button.steps records what the press has awaited so far, as batch.steps
\* does; button.counts holds the counters the press keeps.
Buttons == {"approve_all", "high_rated"}

\* rating >= 7.5  (button.py 150), in hundredths
ButtonThreshold == 750

\* The list the press loops over (button.py 81-82, 147-149).
PressQueue(kind, snapshot) ==
    LET pending_requests == Get(Get(snapshot, "detailed_requests", EmptyDict),
                                Pending, << >>)
    IN  IF kind = "approve_all" THEN pending_requests
        ELSE SelectSeq(pending_requests,
                       LAMBDA req : Get(req, "rating", 0) >= ButtonThreshold)

\* The counters at the start of the loop (button.py 84-85, 151).
Counts0(kind) ==
    IF kind = "approve_all" THEN [approved_count |-> 0, failed_count |-> 0]
    ELSE [approved_count |-> 0]

\* The press goes on at queue[P.idx]: the next call (88, 154), or after the
\* loop the request of a refresh (100, 164), which enters
\* _async_update_data unless the host defers it or a requested refresh is
\* still running.
PressGoOn(P) ==
    IF P.idx > Len(P.queue)
    THEN /\ button' = [P EXCEPT !.phase = "returned",
                                !.steps = Append(@, <<"refresh">>)]
         /\ \/ /\ ~InFlight("service")
               /\ cycle' = [cycle EXCEPT !["service"] =
                              [IdleCycle EXCEPT !.phase = "fetching"]]
            \/ UNCHANGED cycle
    ELSE /\ button' = [P EXCEPT !.phase = "calling",
                                !.steps = Append(@, <<"call", P.queue[P.idx].id>>)]
         /\ UNCHANGED cycle

\* async_press (button.py 77-88, 143-154)
Press(kind) ==
    /\ button.phase \in {"idle", "returned", "crashed"}
    /\ IF data = NoObject
       THEN /\ button' = [IdlePress EXCEPT !.kind = kind, !.phase = "returned"]
            /\ UNCHANGED cycle
       ELSE PressGoOn([IdlePress EXCEPT !.kind = kind,
                                        !.queue = PressQueue(kind, data[1]),
                                        !.counts = Counts0(kind)])
    /\ UNCHANGED <<data, last_pending_count, tasks, switchVars,
                   fanout, entryVars, trusted_users, batch>>

\* The awaited approve call ends (button.py 88-95, 154-159): an exception
\* leaves the press; a result is counted, and the sleep follows.
PressAnswer ==
    /\ button.phase = "calling"
    /\ \E answer \in PostAnswers :
         LET result == ApproveRequest(answer)
         IN  IF result.kind = "raise"
             THEN button' = [button EXCEPT !.phase = "crashed"]
             ELSE button' = [button EXCEPT
                      !.phase = "sleeping",
                      !.counts = IF result.value.success
                                 THEN [@ EXCEPT !.approved_count = @ + 1]
                                 ELSE IF "failed_count" \in DOMAIN @
                                 THEN [@ EXCEPT !.failed_count = @ + 1]
                                 ELSE @,
                      !.steps = Append(@, <<"sleep">>)]
    /\ UNCHANGED <<cycleVars, switchVars, fanout, entryVars, trusted_users, batch>>

\* asyncio.sleep(0.5) ends (button.py 95, 159).
PressWake ==
    /\ button.phase = "sleeping"
    /\ PressGoOn([button EXCEPT !.idx = @ + 1])
    /\ UNCHANGED <<data, last_pending_count, tasks, switchVars,
                   fanout, entryVars, trusted_users, batch>>

\* The refreshes of the specification of the buttons.
ButtonListAnswers ==
    ListAnswers("interval", RuleLists) /\ UNCHANGED <<switchVars, restVars>>
PressRefreshAnswers ==
    ListAnswers("service", RefreshLists) /\ UNCHANGED <<switchVars, restVars>>

NextButton ==
    \/ IntervalRefresh
    \/ ButtonListAnswers
    \/ \E kind \in Buttons : Press(kind)
    \/ PressAnswer
    \/ PressWake
    \/ ServiceListFails
    \/ PressRefreshAnswers

SpecButton == Init /\ [][NextButton]_vars

\* ------------------------ the concurrent lookups (src/__init__.py 191-314)
\* _async_update_data is entered and awaits the list fetch (194).
LegacyRefresh ==
    /\ fanout.phase \in {"idle", "returned", "failed"}
    /\ fanout' = [IdleFanOut EXCEPT !.phase = "fetching"]
    /\ UNCHANGED <<cycleVars, switchVars, entryVars, trusted_users, batch, button>>

\* async_get_requests returned None (195-196).
LegacyListFails ==
    /\ fanout.phase = "fetching"
    /\ fanout' = [fanout EXCEPT !.phase = "failed"]
    /\ UNCHANGED <<cycleVars, switchVars, entryVars, trusted_users, batch, button>>

\* The list answer arrives (199-244).  asyncio.coroutine (235) exists only
\* in interpreters older than 3.11; in the others reaching 235 raises and
\* the cycle fails (312-314).  gather of no task returns at once.
LegacyListAnswers ==
    /\ fanout.phase = "fetching"
    /\ \E results \in LegacyLists, has_coroutine \in BOOLEAN :
         LET detail_tasks == DetailTasks(results)
             G == [fanout EXCEPT
                     !.results = results, !.tasks = detail_tasks,
                     !.detail_results = [i \in 1..Len(results) |-> NoObject]]
         IN  IF ~has_coroutine /\ \E i \in 1..Len(detail_tasks) :
                                      detail_tasks[i].kind = "placeholder"
             THEN fanout' = [G EXCEPT !.phase = "failed", !.tasks = << >>]
             ELSE IF results = << >>
             THEN fanout' = AfterGather(G)
             ELSE fanout' = [G EXCEPT !.phase = "gathering"]
    /\ UNCHANGED <<cycleVars, switchVars, entryVars, trusted_users, batch, button>>

\* Variant of LegacyAcquire: the task enters without looking at the
\* semaphore.
LegacyAcquire_NoLimit(i) ==
    /\ fanout.phase = "gathering"
    /\ i \in 1..Len(fanout.tasks)
    /\ fanout.tasks[i].state = "waiting"
    /\ \A j \in 1..(i - 1) : fanout.tasks[j].state # "waiting"
    /\ fanout' = [fanout EXCEPT !.tasks[i].state = "running"]
    /\ UNCHANGED <<cycleVars, switchVars, entryVars, trusted_users, batch, button>>

\* fetch_with_semaphore enters the semaphore (241) and starts its task
\* (242); the tasks of gather reach the semaphore in list order and the
\* semaphore wakes its waiters first come, first served.
LegacyAcquire(i) ==
    /\ fanout.phase = "gathering"
    /\ i \in 1..Len(fanout.tasks)
    /\ fanout.tasks[i].state = "waiting"
    /\ \A j \in 1..(i - 1) : fanout.tasks[j].state # "waiting"
    /\ Cardinality(Holding(fanout.tasks)) < SemaphoreSlots
    /\ fanout' = [fanout EXCEPT !.tasks[i].state = "running"]
    /\ UNCHANGED <<cycleVars, switchVars, entryVars, trusted_users, batch, button>>

\* A task ends and leaves the semaphore (242); when it was the last one,
\* gather returns (244) and the results are processed (246-314).
LegacyTaskDone(i) ==
    /\ fanout.phase = "gathering"
    /\ i \in Holding(fanout.tasks)
    /\ \E details \in LegacyDetails :
         /\ fanout.tasks[i].kind = "placeholder" => details = NoObject
         /\ LET G == [fanout EXCEPT !.tasks[i].state = "done",
                                    !.detail_results[i] = details]
            IN  IF \A j \in 1..Len(G.tasks) : G.tasks[j].state = "done"
                THEN fanout' = AfterGather(G)
                ELSE fanout' = G
    /\ UNCHANGED <<cycleVars, switchVars, entryVars, trusted_users, batch, button>>

NextFanOut ==
    \/ LegacyRefresh
    \/ LegacyListFails
    \/ LegacyListAnswers
    \/ \E i \in 1..(MaxFanOut + 1) : LegacyAcquire(i)
    \/ \E i \in 1..(MaxFanOut + 1) : LegacyTaskDone(i)

SpecFanOut == Init /\ [][NextFanOut]_vars

\* ------------------------------------------- calls of the API client
\* One call of a method of JellyseerrAPI, from its entry to its return or
\* raise; the client keeps _server_info between calls (77).
CallApprove(request_id) ==
    /\ \E answer \in PostAnswers :
         api_call' = [op |-> "approve", request_id |-> request_id,
                      answer |-> answer, result |-> ApproveRequest(answer)]
    /\ UNCHANGED <<cycleVars, switchVars, fanout, server_info, setup, service,
                   api, trusted_users, batch, button>>

CallDeny(request_id) ==
    /\ \E answer \in PostAnswers :
         api_call' = [op |-> "deny", request_id |-> request_id,
                      answer |-> answer, result |-> DenyRequest(answer)]
    /\ UNCHANGED <<cycleVars, switchVars, fanout, server_info, setup, service,
                   api, trusted_users, batch, button>>

CallGetRequests ==
    /\ \E answer \in ListHttpAnswers :
         api_call' = [op |-> "get_requests",
                      answer |-> answer, result |-> GetRequests(answer)]
    /\ UNCHANGED <<cycleVars, switchVars, fanout, server_info, setup, service,
                   api, trusted_users, batch, button>>

CallGetMovieDetails(tmdb_id, media_type) ==
    /\ \E answer \in DetailHttpAnswers :
         api_call' = [op |-> "get_movie_details",
                      url |-> DetailUrl(tmdb_id, media_type),
                      answer |-> answer, result |-> GetMovieDetails(answer)]
    /\ UNCHANGED <<cycleVars, switchVars, fanout, server_info, setup, service,
                   api, trusted_users, batch, button>>

CallTestConnection ==
    /\ \E answer \in ServerInfoAnswers :
         LET t == TestConnection(answer, server_info)
         IN  /\ api_call' = [op |-> "test_connection", answer |-> answer,
                             before |-> server_info, result |-> t.result]
             /\ server_info' = t.server_info
    /\ UNCHANGED <<cycleVars, switchVars, fanout, setup, service, api,
                   trusted_users, batch, button>>

CallGetServerInfo ==
    /\ \E answer \in ServerInfoAnswers :
         LET g == GetServerInfo(answer, server_info)
         IN  /\ api_call' = [op |-> "get_server_info", called |-> g.called,
                             before |-> server_info, result |-> g.result]
             /\ server_info' = g.server_info
    /\ UNCHANGED <<cycleVars, switchVars, fanout, setup, service, api,
                   trusted_users, batch, button>>

NextApi ==
    \/ \E request_id \in 1..MaxRequestId : CallApprove(request_id)
    \/ \E request_id \in 1..MaxRequestId : CallDeny(request_id)
    \/ CallGetRequests
    \/ \E tmdb_id \in 1..MaxRequestId, media_type \in MediaTypes :
         CallGetMovieDetails(tmdb_id, media_type)
    \/ CallTestConnection
    \/ CallGetServerInfo

SpecApi == Init /\ [][NextApi]_vars

\* ------------------- the approve_request and deny_request services (485-504)
\* A service is called (485-488, 495-499); the services exist once the
\* first refresh has succeeded (473-485).
HandlerCall(op, request_id) ==
    /\ data # NoObject
    /\ service.phase \in {"idle", "returned", "raised", "crashed"}
    /\ service' = [IdleService EXCEPT !.op = op, !.request_id = request_id,
                                      !.phase = "calling"]
    /\ UNCHANGED <<cycleVars, switchVars, fanout, api_call, server_info, setup,
                   api, trusted_users, batch, button>>

\* Variant of HandlerAnswer: the refresh is awaited after every returned
\* result, before a failed one is raised.
HandlerAnswer_RefreshesAlways ==
    /\ service.phase = "calling"
    /\ \E answer \in PostAnswers :
         LET result == IF service.op = "approve" THEN ApproveRequest(answer)
                       ELSE DenyRequest(answer)
         IN  IF result.kind = "raise"
             THEN /\ service' = [service EXCEPT !.phase = "crashed", !.result = result]
                  /\ UNCHANGED cycle
             ELSE /\ service' = [service EXCEPT !.phase = "refreshing",
                                                !.result = result,
                                                !.refreshes = @ + 1]
                  /\ cycle' = [cycle EXCEPT !["service"] =
                                 [IdleCycle EXCEPT !.phase = "fetching"]]
    /\ UNCHANGED <<data, last_pending_count, tasks, switchVars, fanout, api_call,
                   server_info, setup, api, trusted_users, batch, button>>

\* The awaited approve or deny call ends (488-493, 499-504): an exception
\* leaves the handler; after a succeeded result the handler awaits
\* coordinator.async_refresh(), which enters _async_update_data; after a
\* failed result it raises HomeAssistantError.
HandlerAnswer ==
    /\ service.phase = "calling"
    /\ \E answer \in PostAnswers :
         LET result == IF service.op = "approve" THEN ApproveRequest(answer)
                       ELSE DenyRequest(answer)
         IN  IF result.kind = "raise"
             THEN /\ service' = [service EXCEPT !.phase = "crashed", !.result = result]
                  /\ UNCHANGED cycle
             ELSE IF result.value.success
             THEN /\ service' = [service EXCEPT !.phase = "refreshing",
                                                !.result = result,
                                                !.refreshes = @ + 1]
                  /\ cycle' = [cycle EXCEPT !["service"] =
                                 [IdleCycle EXCEPT !.phase = "fetching"]]
             ELSE /\ service' = [service EXCEPT !.phase = "raised", !.result = result]
                  /\ UNCHANGED cycle
    /\ UNCHANGED <<data, last_pending_count, tasks, switchVars, fanout, api_call,
                   server_info, setup, api, trusted_users, batch, button>>

\* The refresh the handler awaits ends, and the handler returns (491, 501).
HandlerRefreshFails ==
    /\ service.phase = "refreshing"
    /\ ListFails("service")
    /\ service' = [service EXCEPT !.phase = "returned"]
    /\ UNCHANGED <<switchVars, fanout, api_call, server_info, setup, api,
                   trusted_users, batch, button>>

HandlerRefreshAnswers ==
    /\ service.phase = "refreshing"
    /\ ListAnswers("service", RefreshLists)
    /\ service' = [service EXCEPT !.phase = "returned"]
    /\ UNCHANGED <<switchVars, fanout, api_call, server_info, setup, api,
                   trusted_users, batch, button>>

NextService ==
    \/ IntervalRefresh
    \/ HandlerListAnswers
    \/ \E request_id \in 1..MaxRequestId : HandlerCall("approve", request_id)
    \/ \E request_id \in 1..MaxRequestId : HandlerCall("deny", request_id)
    \/ HandlerAnswer
    \/ HandlerRefreshFails
    \/ HandlerRefreshAnswers

SpecService == Init /\ [][NextService]_vars

\* ------------------------------------------- construction of the client
\* JellyseerrAPI(session, host, port, ssl, api_key) (70-94)
ApiInit(host, port, ssl) ==
    /\ api' = << [host |-> host, port |-> port, ssl |-> ssl,
                  base_url |-> BaseUrl(host, port, ssl)] >>
    /\ server_info' = NoObject                                        \* 77
    /\ UNCHANGED <<cycleVars, switchVars, fanout, api_call, setup, service,
                   trusted_users, batch, button>>

NextUrl == \E host \in Hosts, port \in Ports, ssl \in BOOLEAN : ApiInit(host, port, ssl)

SpecUrl == Init /\ [][NextUrl]_vars

\* ------------------------------------------ async_setup_entry (443-570)
\* What async_setup_entry does once the first refresh has ended in
\* `phase` (473-570): async_config_entry_first_refresh raises
\* ConfigEntryNotReady when the refresh failed; otherwise the services are
\* registered (544-555) and async_get_server_info is awaited (559), which
\* returns at once when the metadata is cached.
AfterFirstRefresh(S, phase, info) ==
    IF phase = "failed"
    THEN [S EXCEPT !.phase = "ended", !.outcome = "not_ready"]
    ELSE IF phase = "published"
    THEN IF info # NoObject
         THEN [S EXCEPT !.phase = "ended", !.outcome = "loaded", !.services = TRUE]
         ELSE [S EXCEPT !.phase = "device", !.services = TRUE]
    ELSE S

\* The host calls async_setup_entry, the first time or again after
\* ConfigEntryNotReady; a new API client is made (458).
SetupStart(configured) ==
    /\ setup.phase = "none" \/ setup.outcome = "not_ready"
    /\ setup' = IF configured
                THEN [NoSetup EXCEPT !.phase = "testing"]
                ELSE [NoSetup EXCEPT !.phase = "ended", !.outcome = "failed"]  \* 451-453
    /\ server_info' = NoObject
    /\ UNCHANGED <<cycleVars, switchVars, fanout, api_call, service, api,
                   trusted_users, batch, button>>

\* The connection test ends (461-468); when it returned true the
\* coordinator is made and its first refresh is entered (470-473).
SetupTestAnswers ==
    /\ setup.phase = "testing"
    /\ \E answer \in ServerInfoAnswers :
         LET t == TestConnection(answer, server_info)
             S == [setup EXCEPT !.answer = answer]
         IN  /\ server_info' = t.server_info
             /\ IF t.result = Returned(TRUE)
                THEN /\ setup' = [S EXCEPT !.phase = "first_refresh",
                                           !.coordinator = TRUE,
                                           !.first_refresh = TRUE]
                     /\ StartCycle("interval")
                ELSE /\ setup' = [S EXCEPT !.phase = "ended", !.outcome =
                            IF t.result = Returned(FALSE) THEN "not_ready"      \* 462-463
                            ELSE IF t.result.class = "JellyseerrAuthenticationError"
                            THEN "failed"                                       \* 464-466
                            ELSE IF t.result.class = "JellyseerrConnectionError"
                            THEN "not_ready"                                    \* 467-468
                            ELSE "error"]
                     /\ UNCHANGED cycleVars
    /\ UNCHANGED <<switchVars, fanout, api_call, service, api, trusted_users,
                   batch, button>>

\* The steps of the first refresh, each with what follows it in
\* async_setup_entry.
SetupListFails ==
    /\ setup.phase = "first_refresh"
    /\ ListFails("interval")
    /\ setup' = AfterFirstRefresh(setup, cycle'["interval"].phase, server_info)
    /\ UNCHANGED <<switchVars, fanout, api_call, server_info, service, api,
                   trusted_users, batch, button>>

SetupListAnswers ==
    /\ setup.phase = "first_refresh"
    /\ ListAnswers("interval", ConcurrentLists)
    /\ setup' = AfterFirstRefresh(setup, cycle'["interval"].phase, server_info)
    /\ UNCHANGED <<switchVars, fanout, api_call, server_info, service, api,
                   trusted_users, batch, button>>

SetupDetailAnswer ==
    /\ setup.phase = "first_refresh"
    /\ DetailAnswer("interval")
    /\ setup' = AfterFirstRefresh(setup, cycle'["interval"].phase, server_info)
    /\ UNCHANGED <<switchVars, fanout, api_call, server_info, service, api,
                   trusted_users, batch, button>>

\* The connection test that async_get_server_info makes when nothing is
\* cached ends (559); an exception leaves async_setup_entry.
SetupDeviceAnswers ==
    /\ setup.phase = "device"
    /\ \E answer \in ServerInfoAnswers :
         LET g == GetServerInfo(answer, server_info)
         IN  /\ server_info' = g.server_info
             /\ setup' = [setup EXCEPT !.phase = "ended", !.outcome =
                            IF g.result.kind = "raise" THEN "error" ELSE "loaded"]
    /\ UNCHANGED <<cycleVars, switchVars, fanout, api_call, service, api,
                   trusted_users, batch, button>>

NextSetup ==
    \/ \E configured \in BOOLEAN : SetupStart(configured)
    \/ SetupTestAnswers
    \/ SetupListFails
    \/ SetupListAnswers
    \/ SetupDetailAnswer
    \/ SetupDeviceAnswers

SpecSetup == Init /\ [][NextSetup]_vars

\* ---------------------------------------------------- helpers of the claims
RECURSIVE SumOver(_, _)
SumOver(f, S) ==
    IF S = {} THEN 0
    ELSE LET x == CHOOSE y \in S : TRUE IN f[x] + SumOver(f, S \ {x})

Ids(seq) == [i \in 1..Len(seq) |-> seq[i]["id"]]

WithStatus(results, s) ==
    SelectSeq(results, LAMBDA r : Get(r, "status", DefaultStatus) = s)

CountStatus(results, s) == Len(WithStatus(results, s))

Published(c) == cycle[c].phase = "published"

\* ------------------------------------------------------------------- C1
\* C1: a cycle that published fired the new-requests event exactly when its
\* Pending count exceeded the stored previous count, and the event carries
\* as many requests as the count rose by.
C1_DeltaCarriesExactlyTheIncrease ==
    \A c \in Callers :
      Published(c) =>
        LET cur == CountStatus(cycle[c].results, Pending)
        IN  /\ (cycle[c].fired # NoObject) <=> (cur > cycle[c].prev)
            /\ cycle[c].fired # NoObject =>
                 Len(cycle[c].fired[1].requests) = cur - cycle[c].prev

\* ------------------------------------------------------------------- C2
\* C2: at most one refresh cycle is in flight at any time.
C2_AtMostOneCycleInFlight ==
    Cardinality({c \in Callers : InFlight(c)}) <= 1

\* ------------------------------------------------------------------- C3
\* C3: a switch that is on and not removed has exactly one live listener on
\* the bus; a switch that is off or removed has none.
C3_OneListenerExactlyWhileOn ==
    \A s \in Switches :
      IF is_on[s] /\ entity[s] # "removed"
      THEN Cardinality(listeners[s]) = 1
      ELSE listeners[s] = {}

\* ------------------------------------------------------------------- C4
\* C4: no cycle fails at the classification of a request whose status is
\* not one of the five known values (error "KeyError" is the failure of the
\* bucket lookup at line 408).
C4_UnknownStatusTolerated ==
    \A c \in Callers :
      ~(cycle[c].phase = "failed" /\ cycle[c].error = "KeyError")

\* ------------------------------------------------------------------- C5
\* C5: a step in which the list fetch of a cycle fails leaves the published
\* snapshot and the stored previous-Pending count as they were, fires no
\* event and has issued no detail call.
C5_ListFailureChangesNothing ==
    [][ \A c \in Callers :
          (cycle[c].phase = "fetching" /\ cycle'[c].phase = "failed"
             /\ cycle'[c].error \in ListFailures)
          => /\ data' = data
             /\ last_pending_count' = last_pending_count
             /\ cycle'[c].fired = NoObject
             /\ cycle'[c].calls = << >> ]_vars

C5_Witness ==
    /\ cycle["interval"].phase = "failed"
    /\ cycle["interval"].error \in ListFailures
    /\ data # NoObject
    /\ last_pending_count > 0

\* ------------------------------------------------------------------- C6
\* C6: in the published snapshot the status counts sum to the number of
\* records the list fetch returned.
C6_CountsSumToResults ==
    data # NoObject =>
      SumOver(data[1].status_counts, DOMAIN data[1].status_counts)
        = Len(data[1].raw_results)

C6_Witness ==
    /\ data # NoObject
    /\ Len(data[1].raw_results) > BucketCap
    /\ Cardinality(DOMAIN data[1].status_counts) >= 2

\* ------------------------------------------------------------------- C7
\* C7: in the published snapshot every status bucket holds at most 10
\* items, and they are the first fetched records of that status, in the
\* order of the list answer.
C7_BucketsAreCappedPrefixes ==
    data # NoObject =>
      \A s \in KnownStatuses :
        LET bucket == data[1].detailed_requests[s]
        IN  /\ Len(bucket) <= 10
            /\ Ids(bucket) = Take(Ids(WithStatus(data[1].raw_results, s)), 10)
            /\ \A i \in 1..Len(bucket) : bucket[i].status = s

C7_Witness ==
    /\ data # NoObject
    /\ CountStatus(data[1].raw_results, Pending) > 10
    /\ Len(data[1].detailed_requests[Pending]) = 10
    /\ data[1].raw_results[1]["status"] # Pending

\* ------------------------------------------------------------------- C8
\* C8: in the published snapshot recent_requests holds at most 5 items:
\* the first 5 records of the list answer, whatever their status.
C8_RecentIsFirstFive ==
    data # NoObject =>
      /\ Len(data[1].recent_requests) <= 5
      /\ Ids(data[1].recent_requests) = Take(Ids(data[1].raw_results), 5)

C8_Witness ==
    /\ data # NoObject
    /\ Len(data[1].raw_results) > 5
    /\ data[1].raw_results[1]["status"] # Pending

\* ------------------------------------------------------------------- C9
\* C9: a cycle whose list fetch succeeded never ends failed, and when it
\* has published it has enriched one item per fetched record.
C9_EnrichmentNeverAborts ==
    \A c \in Callers :
      /\ cycle[c].phase = "failed" => cycle[c].error \in ListFailures
      /\ Published(c) => cycle[c].enriched = Len(cycle[c].results)

\* ------------------------------------------------------------------ C10
HasEmbeddedPoster(request) ==
    LET media == Get(request, "media", EmptyDict)
    IN  \/ TruthyS(Get(media, "posterPath", None))
        \/ TruthyS(Get(media, "poster_path", None))

HasTmdbId(request) ==
    TruthyN(Get(Get(request, "media", EmptyDict), "tmdbId", NoneNum))

\* The records the loop of cycle c has reached.
Reached(c) == 1..Min(cycle[c].idx, Len(cycle[c].results))

\* C10: the detail calls of a cycle are, in list order and once each, the
\* calls for the records it has reached that embed no poster path (under
\* either spelling) and carry a tmdbId; a published cycle has reached every
\* record.
C10_DetailCallIffNoPosterAndTmdbId ==
    \A c \in Callers :
      /\ \A i \in Reached(c) :
           (\E j \in 1..Len(cycle[c].calls) : cycle[c].calls[j] = i)
             <=> (~HasEmbeddedPoster(cycle[c].results[i])
                    /\ HasTmdbId(cycle[c].results[i]))
      /\ \A j, k \in 1..Len(cycle[c].calls) :
           cycle[c].calls[j] = cycle[c].calls[k] => j = k
      /\ \A j \in 1..Len(cycle[c].calls) : cycle[c].calls[j] \in Reached(c)
      /\ Published(c) => Reached(c) = 1..Len(cycle[c].results)

C10_Witness ==
    /\ Published("interval")
    /\ Len(cycle["interval"].calls) = 1
    /\ Len(cycle["interval"].results) > 1
    /\ \E i \in 1..Len(cycle["interval"].results) :
         HasEmbeddedPoster(cycle["interval"].results[i])
           /\ ~TruthyS(Get(cycle["interval"].results[i]["media"], "posterPath", None))

\* ------------------------------------------------------------------ C11
\* C11: at most 5 detail calls of a cycle are in flight, and a call starts
\* only in a step before which fewer than 5 tasks held a slot.
C11_AtMostFiveDetailCalls ==
    [][ /\ Cardinality(LookupsInFlight(fanout'.tasks)) <= 5
        /\ \A i \in 1..Len(fanout'.tasks) :
             (i \in Holding(fanout'.tasks) /\ i \notin Holding(fanout.tasks))
               => Cardinality(Holding(fanout.tasks)) < 5 ]_vars

C11_Witness ==
    /\ Cardinality(LookupsInFlight(fanout.tasks)) = 5
    /\ \E i \in 1..Len(fanout.tasks) :
         fanout.tasks[i].kind = "lookup" /\ fanout.tasks[i].state = "waiting"

\* ------------------------------------------------------------------ C12
\* Every fetched record of cycle c has been enriched and classified, and no
\* detail call of the cycle is awaited.
EnrichmentComplete(L) ==
    /\ L.idx = Len(L.results) + 1
    /\ L.enriched = Len(L.results)
    /\ Len(L.recent_requests) = Min(RecentCap, Len(L.results))
    /\ \A j \in 1..Len(L.calls) : L.calls[j] < L.idx

\* The step ends cycle c by publishing.
Publishes(c) ==
    /\ cycle[c].phase \in {"fetching", "detail"}
    /\ cycle'[c].phase = "published"

\* C12: a step changes the published snapshot or the stored previous-Pending
\* count, or leaves a cycle with a fired event, only by ending a cycle whose
\* every fetched record has been enriched; the snapshot it publishes is the
\* one built from that complete enrichment.
C12_PublicationAfterFullEnrichment ==
    [][ /\ (data' # data \/ last_pending_count' # last_pending_count)
             => \E c \in Callers : Publishes(c)
        /\ \A c \in Callers :
             /\ cycle'[c].fired # NoObject => cycle'[c].phase = "published"
             /\ Publishes(c) =>
                  /\ EnrichmentComplete(cycle'[c])
                  /\ data' = <<Snapshot(cycle'[c])>> ]_vars

C12_Witness ==
    /\ Published("interval")
    /\ Len(cycle["interval"].calls) = 2
    /\ cycle["interval"].fired # NoObject
    /\ data = <<Snapshot(cycle["interval"])>>

\* ------------------------------------------------------------------ C13
\* The parts of a snapshot agree with its own raw results.
OneCycle(snapshot) ==
    /\ snapshot.status_counts = StatusCounts(snapshot.raw_results)
    /\ Ids(snapshot.recent_requests) = Take(Ids(snapshot.raw_results), RecentCap)
    /\ \A s \in KnownStatuses :
         Ids(snapshot.detailed_requests[s])
           = Take(Ids(WithStatus(snapshot.raw_results, s)), BucketCap)

\* C13: the published data is none until a cycle publishes and never none
\* again; it changes only in the single step that ends a cycle by
\* publishing, and then every part of it is that cycle's result.
C13_DataIsOneWholeCycle ==
    [][ /\ data # NoObject => data' # NoObject
        /\ data' # NoObject => OneCycle(data'[1])
        /\ data' # data =>
             \E c \in Callers :
               /\ Publishes(c)
               /\ data' = <<Snapshot(cycle'[c])>> ]_vars

C13_Witness ==
    /\ Published("service")
    /\ Published("interval")
    /\ cycle["service"].results # cycle["interval"].results
    /\ data = <<Snapshot(cycle["interval"])>>

\* ------------------------------------------------------------------ C14
\* The carried items a rule task has evaluated: those before its index and,
\* while it awaits the approve call or after the call raised, the one at it.
Evaluated(T) ==
    1..Min(IF T.phase \in {"approving", "crashed"} THEN T.idx ELSE T.idx - 1,
           Len(T.requests))

Called(T, i) == \E j \in 1..Len(T.calls) : T.calls[j] = i

\* C14: the rating rule calls approve for an evaluated item exactly when
\* its rating is at least 7.5: for 7.5 it does, for 7.49 and for an item
\* without rating (rating 0) it does not.
C14_RatingRuleInclusive ==
    \A t \in 1..Len(tasks) :
      tasks[t].switch = "high_rated" =>
        \A i \in Evaluated(tasks[t]) :
          LET rating == tasks[t].requests[i].rating
          IN  /\ Called(tasks[t], i) <=> rating >= 750
              /\ rating = 750 => Called(tasks[t], i)
              /\ rating \in {749, 0} => ~Called(tasks[t], i)

C14_Witness ==
    \E t \in 1..Len(tasks) :
      /\ tasks[t].switch = "high_rated"
      /\ tasks[t].phase = "done"
      /\ Len(tasks[t].requests) = 2
      /\ tasks[t].requests[1].rating = 749
      /\ tasks[t].requests[2].rating = 750
      /\ tasks[t].calls = <<2>>

\* ------------------------------------------------------------------ C15
\* The calls of T that returned a succeeded result.
Succeeded(T) ==
    { T.calls[j] : j \in { k \in 1..Len(T.outcomes) : T.outcomes[k] = "succeeded" } }

\* C15: the auto-approved events of a rule task are, once each, the events
\* for the items whose approve call it made and got a succeeded result
\* from.
C15_AuditIffApproveSucceeded ==
    \A t \in 1..Len(tasks) :
      /\ { tasks[t].audits[k] : k \in 1..Len(tasks[t].audits) } = Succeeded(tasks[t])
      /\ Len(tasks[t].audits) = Cardinality(Succeeded(tasks[t]))
      /\ \A k \in 1..Len(tasks[t].audits) : Called(tasks[t], tasks[t].audits[k])

C15_Witness ==
    \E t \in 1..Len(tasks) :
      /\ tasks[t].phase = "done"
      /\ tasks[t].outcomes = <<"failed", "succeeded">>
      /\ tasks[t].audits = <<2>>

\* ------------------------------------------------------------------ C16
\* C16: the trusted-requester rule calls approve for an evaluated item
\* exactly when its requester is in the configured set, so for none when
\* the set is empty; a task that ended normally has evaluated every item.
C16_TrustedRuleIsMembership ==
    \A t \in 1..Len(tasks) :
      tasks[t].switch = "trusted" =>
        /\ \A i \in Evaluated(tasks[t]) :
             Called(tasks[t], i)
               <=> tasks[t].requests[i].requested_by \in trusted_users
        /\ \A j \in 1..Len(tasks[t].calls) : tasks[t].calls[j] \in Evaluated(tasks[t])
        /\ trusted_users = {} => tasks[t].calls = << >>
        /\ tasks[t].phase = "done" =>
             Evaluated(tasks[t]) = 1..Len(tasks[t].requests)

C16_Witness ==
    \E t \in 1..Len(tasks) :
      /\ tasks[t].switch = "trusted"
      /\ tasks[t].phase = "done"
      /\ Len(tasks[t].requests) = 2
      /\ tasks[t].requests[1].requested_by = "bob"
      /\ tasks[t].requests[2].requested_by = "alice"
      /\ tasks[t].calls = <<2>>

\* ------------------------------------------------------------------ C17
\* The ids the handler has called approve or deny for, in order.
Attempted(B) ==
    LET calls == SelectSeq(B.steps, LAMBDA st : st[1] = "call")
    IN  [ i \in 1..Len(calls) |-> calls[i][2] ]

\* C17: a batch handler that has ended has called approve (or deny) for
\* every id of its list, in order, and has reported as failed exactly the
\* ids whose call did not succeed.
C17_BatchAttemptsEveryId ==
    batch.phase \in {"returned", "raised", "crashed"} =>
      /\ Attempted(batch) = batch.request_ids
      /\ Len(batch.results) = Len(batch.request_ids)
      /\ batch.failed = FailedIds(batch.results)
      /\ batch.phase = (IF batch.failed = << >> THEN "returned" ELSE "raised")

\* ------------------------------------------------------------------ C18
\* What a press over queue awaits when it makes every call and sleeps after
\* each of them.
RECURSIVE CallsAndSleeps(_)
CallsAndSleeps(queue) ==
    IF queue = << >> THEN << >>
    ELSE << <<"call", Head(queue).id>>, <<"sleep">> >> \o CallsAndSleeps(Tail(queue))

\* C18: a press of a bulk button that found data and has ended has awaited,
\* one after the other, the approve call of every item of its list, each
\* followed by a sleep, and it has counted every call as a success or as a
\* failure.
C18_ButtonsSequentialWithDelay ==
    (button.phase \in {"returned", "crashed"} /\ button.counts # EmptyDict) =>
      /\ button.steps = CallsAndSleeps(button.queue) \o << <<"refresh">> >>
      /\ {"approved_count", "failed_count"} \subseteq DOMAIN button.counts
      /\ button.counts.approved_count + button.counts.failed_count
           = Len(button.queue)

\* ------------------------------------------------------------------ C19
\* C19: every call of approve or deny returns, and what it returns is a
\* succeeded result or a failed result with an error message.
C19_ApproveDenyNeverRaise ==
    api_call.op \in {"approve", "deny"} =>
      /\ api_call.result.kind = "return"
      /\ "success" \in DOMAIN api_call.result.value
      /\ ~api_call.result.value.success => "error" \in DOMAIN api_call.result.value

\* ------------------------------------------------------------------ C20
\* C20: a call of listRequests returns the parsed body for a 200, raises
\* the authentication error for a 401, the base error carrying the body
\* for any other status, and the connection error for a timeout or a
\* transport failure and for nothing else.
C20_ListOutcomeMapping ==
    api_call.op = "get_requests" =>
      LET answer == api_call.answer
          result == api_call.result
      IN  IF answer.kind # "response"
          THEN result.kind = "raise" /\ result.class = "JellyseerrConnectionError"
          ELSE IF answer.status = 200
          THEN result.kind = "return" /\ result = Json(answer.body)
          ELSE IF answer.status = 401
          THEN result.kind = "raise" /\ result.class = "JellyseerrAuthenticationError"
          ELSE /\ result.kind = "raise"
               /\ result.class = "JellyseerrError"
               /\ "body" \in DOMAIN result.message

\* ------------------------------------------------------------------ C21
\* C21: a call of getItemDetail returns the parsed body for a 200, and
\* returns no data, raising nothing, for any other status, for a timeout
\* and for a transport failure.
C21_DetailOutcomeMapping ==
    api_call.op = "get_movie_details" =>
      LET answer == api_call.answer
          result == api_call.result
      IN  /\ result.kind = "return"
          /\ IF answer.kind = "response" /\ answer.status = 200
             THEN answer.body[1] = "json" /\ result.value = answer.body[2]
             ELSE result.value = NoObject

\* ------------------------------------------------------------------ C22
\* C22: a call of testConnection returns true for a 200 and false when
\* the server is unreachable or answers another status, raises only the
\* authentication error and only for a 401, and caches the server
\* metadata exactly when it returns true; a request for server info made
\* while metadata is cached returns it without a call.
C22_TestConnectionContract ==
    /\ api_call.op = "test_connection" =>
         LET answer == api_call.answer
             result == api_call.result
         IN  /\ IF answer.kind = "response" /\ answer.status = 401
                THEN /\ result.kind = "raise"
                     /\ result.class = "JellyseerrAuthenticationError"
                ELSE /\ result.kind = "return"
                     /\ result.value = (answer.kind = "response" /\ answer.status = 200)
             /\ IF result = Returned(TRUE)
                THEN server_info = answer.body[2] /\ server_info # NoObject
                ELSE server_info = api_call.before
    /\ (api_call.op = "get_server_info" /\ api_call.before # NoObject) =>
         /\ ~api_call.called
         /\ api_call.result = Returned(api_call.before)
         /\ server_info = api_call.before

\* ------------------------------------------------------------------ C23
\* C23: once the connection test of a setup has ended, the setup is a
\* hard failure without coordinator or services when the answer was a
\* 401, is not ready when the call timed out, failed in transport or was
\* answered another status than 200, and has entered the first refresh
\* when the answer was a 200; a coordinator or services exist only after
\* a test that succeeded.
C23_SetupOutcomeByConnectionTest ==
    setup.answer.kind # "none" =>
      LET answer == setup.answer
      IN  /\ IF answer.kind \in {"timeout", "client_error"}
             THEN setup.outcome = "not_ready"
             ELSE IF answer.status = 401
             THEN setup.outcome = "failed"
             ELSE IF answer.status # 200
             THEN setup.outcome = "not_ready"
             ELSE setup.first_refresh
          /\ (setup.coordinator \/ setup.services) =>
               (answer.kind = "response" /\ answer.status = 200)
          /\ setup.outcome = "failed" => ~setup.coordinator /\ ~setup.services

\* ------------------------------------------------------------------ C24
\* C24: the base address of a client is the host followed by /api/v1
\* when the host starts with http:// or https://, whatever the port and
\* the TLS flag; otherwise it is scheme://host/api/v1 when the port is
\* the default of the scheme (443 with TLS, 80 without) and
\* scheme://host:port/api/v1 in every other case.
Scheme(ssl) ==
    IF ssl THEN <<"h", "t", "t", "p", "s", ":", "/", "/">>
    ELSE <<"h", "t", "t", "p", ":", "/", "/">>
DefaultPort(ssl) == IF ssl THEN 443 ELSE 80
HasScheme(host) ==
    \E n \in 0..Len(host) : SubSeq(host, 1, n) \in {HttpPrefix, HttpsPrefix}

C24_BaseAddress ==
    api # NoObject =>
      LET a == api[1]
      IN  IF HasScheme(a.host)
          THEN a.base_url = a.host \o ApiPath
          ELSE IF a.port = DefaultPort(a.ssl)
          THEN a.base_url = Scheme(a.ssl) \o a.host \o ApiPath
          ELSE a.base_url = Scheme(a.ssl) \o a.host \o <<":">>
                              \o Digits(a.port) \o ApiPath

\* The first example of the spec: media.example.com with TLS on 443.
C24_Witness ==
    /\ api # NoObject
    /\ api[1].host = MediaExampleCom /\ api[1].ssl /\ api[1].port = 443
    /\ api[1].base_url = HttpsPrefix \o MediaExampleCom \o ApiPath

\* ------------------------------------------------------------------ C25
\* C25: the title of every published item is a non-empty string, and it
\* is the bare placeholder "Unknown" only for a record that has no
\* identifier to build a placeholder from.
C25_TitleNeverEmpty ==
    data # NoObject =>
      \A i \in 1..Len(data[1].recent_requests) :
        LET item == data[1].recent_requests[i]
        IN  /\ TruthyS(item.title)
            /\ item.title = "Unknown" => ~TruthyN(item.tmdb_id)

\* ------------------------------------------------------------------ C26
\* C26: in every published item, a display field that the embedded media
\* had populated is still populated: the overlay of the detail answer has
\* not replaced it by an empty, null or zero value.
PopulatedS(v) == TruthyS(v)
PopulatedN(v) == TruthyN(v)

C26_OverlayKeepsPopulatedFields ==
    data # NoObject =>
      \A i \in 1..Len(data[1].recent_requests) :
        LET item == data[1].recent_requests[i]
            e == EnrichFromMedia(data[1].raw_results[i])
        IN  /\ PopulatedS(e.title) => PopulatedS(item.title)
            /\ PopulatedS(e.overview) => PopulatedS(item.overview)
            /\ PopulatedS(e.release_date) => PopulatedS(item.release_date)
            /\ PopulatedN(e.rating) => PopulatedN(item.rating)
            /\ PopulatedN(e.runtime) => PopulatedN(item.runtime)
            /\ e.genres # << >> => item.genres # << >>
            /\ e.poster_url # NoObject => item.poster_url # NoObject
            /\ e.backdrop_url # NoObject => item.backdrop_url # NoObject

\* ------------------------------------------------------------------ C27
\* C27: among the steps a batch handler has awaited, a call of the remote
\* service is never directly followed by the next call: a sleep lies
\* between them, whether the earlier call succeeded or failed.
C27_DelayBetweenBatchCalls ==
    \A i \in 1..(Len(batch.steps) - 1) :
      batch.steps[i][1] = "call" => batch.steps[i + 1][1] # "call"

\* ------------------------------------------------------------------ C28
\* C28: once the remote call of an approve_request or deny_request
\* handler has ended, the handler has entered a refresh exactly when the
\* call returned a succeeded result, and it has entered one refresh at
\* most; when the call returned a failed result the handler has raised
\* and has entered none.
C28_SingleActionRefreshIffSucceeded ==
    service.phase \notin {"idle", "calling"} =>
      LET result == service.result
          succeeded == result.kind = "return" /\ result.value.success
          failed == result.kind = "return" /\ ~result.value.success
      IN  /\ service.refreshes = (IF succeeded THEN 1 ELSE 0)
          /\ succeeded <=> service.phase \in {"refreshing", "returned"}
          /\ service.phase = "refreshing" => InFlight("service")
          /\ failed <=> service.phase = "raised"

\* A deny call failed and the handler raised without a refresh, after an
\* earlier approve call of the same handler had refreshed.
C28_Witness ==
    /\ service.op = "deny"
    /\ service.phase = "raised"
    /\ service.refreshes = 0
    /\ cycle["service"].phase = "published"

\* ------------------------------------------------------------------ C29
\* One step of the interval cycle: a cycle is started only when none is
\* in flight; the list fetch is followed by the pass over the records or
\* by the end of the cycle; the pass never goes back to the list fetch or
\* to an earlier record; a cycle fails only in the list fetch or by an
\* unexpected error.
CycleAdvances ==
    LET p == cycle["interval"]
        q == cycle'["interval"]
    IN  \/ q = p
        \/ /\ p.phase \notin {"fetching", "detail"}
           /\ q.phase = "fetching"
        \/ /\ p.phase = "fetching"
           /\ q.phase \in {"detail", "published", "failed"}
           /\ q.phase = "failed" =>
                q.error \in ListFailures \cup {"KeyError", "ValueError"}
        \/ /\ p.phase = "detail"
           /\ q.phase \in {"detail", "published", "failed"}
           /\ q.results = p.results
           /\ q.phase = "detail" => q.idx > p.idx
           /\ q.phase = "failed" => q.error \in {"KeyError", "ValueError"}

\* Nothing is classified while a detail call is awaited.
ClassifiesAfterEnriching ==
    cycle'["interval"].phase = "detail" =>
      /\ cycle'["interval"].enriched = 0
      /\ cycle'["interval"].recent_requests = << >>

\* The records before the one whose detail call is awaited are enriched
\* and classified, and no other.
ClassifiesRecordByRecord ==
    /\ cycle'["interval"].phase = "detail" =>
         cycle'["interval"].enriched = cycle'["interval"].idx - 1
    /\ cycle'["interval"].phase = "published" =>
         cycle'["interval"].enriched = Len(cycle'["interval"].results)

CycleEnds ==
    InFlight("interval") ~> cycle["interval"].phase \in {"published", "failed"}

PendingIds(results) ==
    { results[i]["id"] :
        i \in { j \in 1..Len(results) :
                  Get(results[j], "status", DefaultStatus) = Pending } }

\* The ids of the requests an event carries; none when no event was fired.
CarriedIds(fired) ==
    IF fired = NoObject THEN {}
    ELSE { fired[1].requests[i].id : i \in 1..Len(fired[1].requests) }

\* C30: the requests carried by the new-requests event of a cycle that
\* publishes are exactly the requests pending in that cycle that were not
\* pending in the previous successful cycle (whose results are the
\* published data); a cycle without such a request fires no event.
C30_EventCarriesExactlyTheNewPending ==
    [][ Publishes("interval") =>
          LET before == IF data = NoObject THEN {}
                        ELSE PendingIds(data[1].raw_results)
              now    == PendingIds(cycle'["interval"].results)
          IN  CarriedIds(cycle'["interval"].fired) = now \ before ]_vars

\* ------------------------------------------------------------------ C31
\* The tasks that issued an approve call for the i-th carried request.
Approvers(i) ==
    { t \in 1..Len(tasks) :
        \E j \in 1..Len(tasks[t].calls) : tasks[t].calls[j] = i }

\* C31: each request carried by the new-requests event receives at most
\* one approve call in total across the three switches, whatever turn-on
\* and turn-off operations preceded the event.  (The list answer of this
\* specification raises the Pending count once, so every task belongs to
\* the same event.)
C31_AtMostOneApprovePerRequest ==
    \A i \in 1..MaxRuleLen : Cardinality(Approvers(i)) <= 1

\* ------------------------------------------------------------------ C32
\* C32: a step in which a task issues an approve call or fires the
\* auto-approved event is a step of a switch that is on; a switch that has
\* been turned off does neither, also for the remaining requests of an
\* event it began to process while on.
C32_NothingAfterTurnOff ==
    [][ \A t \in 1..Len(tasks) :
          ( \/ Len(tasks'[t].calls) > Len(tasks[t].calls)
            \/ Len(tasks'[t].audits) > Len(tasks[t].audits) )
          => is_on[tasks[t].switch] ]_vars

\* ------------------------------------------------------------------ C33
\* C33: the stored previous-Pending count is 0 as long as no cycle has
\* succeeded; a cycle that succeeds stores its own Pending count, whether
\* that count rose, fell or stayed equal and whether or not the event was
\* fired, and no other step changes the stored count; the first cycle to
\* succeed, when it finds k > 0 pending requests, fires the event with
\* count k.
C33_StoredCountIsLastCyclesCount ==
    /\ [](data = NoObject => last_pending_count = 0)
    /\ [][ LET k == CountStatus(cycle'["interval"].results, Pending)
           IN  IF Publishes("interval")
               THEN /\ last_pending_count' = k
                    /\ (data = NoObject /\ k > 0) =>
                         /\ cycle'["interval"].fired # NoObject
                         /\ cycle'["interval"].fired[1].count = k
               ELSE last_pending_count' = last_pending_count ]_vars

\* A cycle succeeded with fewer pending requests than the one before it:
\* no event, and the lower count is stored.
C33_Witness ==
    /\ Published("interval")
    /\ cycle["interval"].fired = NoObject
    /\ cycle["interval"].prev > last_pending_count
    /\ last_pending_count > 0

\* ------------------------------------------------------------------ C34
\* C34: a call of approve or deny returns a succeeded result exactly when
\* the server answered with status 200, whatever the body of that answer.
C34_SucceededIffStatus200 ==
    api_call.op \in {"approve", "deny"} =>
      LET answer == api_call.answer
          result == api_call.result
      IN  ( /\ result.kind = "return"
            /\ result.value.success )
          <=> ( /\ answer.kind = "response"
                /\ answer.status = 200 )

\* ------------------------------------------------------------------ C35
\* The step is a press of a bulk button.
Pressed ==
    /\ button.phase \in {"idle", "returned", "crashed"}
    /\ button' # button

\* The items a press of the button acts on: the Pending bucket of the
\* snapshot, for the high-rated button its items rated 7.5 or more; none
\* without a snapshot.
BucketItems(kind, snapshot) ==
    IF snapshot = NoObject THEN << >>
    ELSE IF kind = "approve_all" THEN snapshot[1].detailed_requests[Pending]
    ELSE SelectSeq(snapshot[1].detailed_requests[Pending],
                   LAMBDA req : req.rating >= ButtonThreshold)

\* The calls and refresh requests among the awaited steps.
WithoutSleeps(steps) == SelectSeq(steps, LAMBDA s : s # <<"sleep">>)

\* C35: a press acts on the items of the Pending bucket of the snapshot
\* current when the button is pressed (for the high-rated button, on those
\* rated 7.5 or more), at most BucketCap of them; a press that has ended
\* has issued one approve call for each of them, in order, and then
\* requested one refresh, and it has done nothing when there was no
\* snapshot.
C35_PressApprovesEveryBucketItemOnce ==
    /\ [][ Pressed =>
             /\ button'.queue = BucketItems(button'.kind, data)
             /\ Len(button'.queue) <= BucketCap ]_vars
    /\ [] ( button.phase \in {"returned", "crashed"} =>
              WithoutSleeps(button.steps) =
                IF button.counts = EmptyDict THEN << >>
                ELSE [ i \in 1..Len(button.queue) |->
                         <<"call", button.queue[i].id>> ]
                     \o << <<"refresh">> >> )

\* ------------------------------------------------------------------ C36
\* The places of the refreshes among the steps a batch handler awaited.
Refreshes(B) == { i \in 1..Len(B.steps) : B.steps[i] = <<"refresh">> }

\* C36: a batch handler that has ended, by returning or by raising, has
\* entered exactly one refresh, as the last thing it awaited and after a
\* call for every id of its list, whether all, some or none of the calls
\* succeeded; while it has not entered the refresh it has raised nothing.
C36_BatchRefreshesExactlyOnce ==
    /\ batch.phase \in {"returned", "raised", "crashed"} =>
         /\ Refreshes(batch) = { Len(batch.steps) }
         /\ Attempted(batch) = batch.request_ids
    /\ batch.phase \in {"calling", "sleeping"} => Refreshes(batch) = {}

\* ------------------------------------------------------------------ C37
\* C37: a rule task makes its approve calls in the carried order and one
\* at a time, each after the one before it has ended; a task that has
\* ended has evaluated every carried item, also the items after one whose
\* approve call failed.
C37_RuleEvaluatesEveryItem ==
    \A t \in 1..Len(tasks) :
      LET T == tasks[t]
      IN  /\ \A j \in 1..(Len(T.calls) - 1) : T.calls[j] < T.calls[j + 1]
          /\ Len(T.outcomes) =
               IF T.phase = "approving" THEN Len(T.calls) - 1 ELSE Len(T.calls)
          /\ T.phase \in {"done", "crashed"} =>
               Evaluated(T) = 1..Len(T.requests)

\* ------------------------------------------------------------------ C38
\* C38: a task of the base switch issues no approve call and fires no
\* auto-approved event, whatever event it was created for and whether the
\* switch is on or off by then; every call and every auto-approved event
\* belongs to a task of the rating switch or of the trusted-requester
\* switch.
C38_BaseSwitchNeverActs ==
    \A t \in 1..Len(tasks) :
      /\ tasks[t].switch = "auto_approval" =>
           /\ tasks[t].calls = << >>
           /\ tasks[t].audits = << >>
           /\ tasks[t].phase \in {"scheduled", "done"}
      /\ (tasks[t].calls # << >> \/ tasks[t].audits # << >>) =>
           tasks[t].switch \in {"high_rated", "trusted"}

\* The base switch, on, has run its task for an event that carried a
\* request.
C38_Witness ==
    /\ is_on["auto_approval"]
    /\ \E t \in 1..Len(tasks) :
         /\ tasks[t].switch = "auto_approval"
         /\ tasks[t].phase = "done"
         /\ tasks[t].requests # << >>
====
